---- MODULE Spec2Model ----
(***************************************************************************)
(* NothingHide breach-intelligence agent.                                  *)
(*                                                                         *)
(* The module models                                                       *)
(*   - agent/correlation.py : normalize_breach_name, extract_year,         *)
(*     CorrelatedBreach.merge_from, CorrelationEngine.correlate and        *)
(*     _calculate_risk_score (pure functions, specification SpecCorr);     *)
(*   - password_checker.py  : the k-anonymity range lookup and             *)
(*     PasswordChecker.check / async_check (specification SpecPwd);        *)
(*   - agent/orchestrator.py, agent/sources.py, agent/rate_limiter.py :    *)
(*     BreachIntelligenceAgent.check_email / check_emails_batch with the   *)
(*     per-source retry loop, SourceHealth and AdaptiveRateLimiter         *)
(*     (specifications SpecAgent, SpecAgentFair, SpecLimited, SpecBatch,   *)
(*     SpecLimitedBatch), and on their own _calculate_risk_score           *)
(*     (SpecRisk), SourceHealth (SpecHealth), the back-off of the rate     *)
(*     limiter (SpecBackoff), DataSource.fetch (SpecFetch), the name       *)
(*     normalization (SpecNorm), the ordering of the correlated breaches   *)
(*     (SpecSort) and consecutive checks of one failing source             *)
(*     (SpecRecover);                                                      *)
(*   - cli.py : what do_email_check prints for a result (SpecCli).         *)
(*                                                                         *)
(* Text is a sequence of one-character strings, so that lower-casing,      *)
(* stripping, slicing and comparison are computed character by character.  *)
(* Python's None is the value None below.                                  *)
(***************************************************************************)
EXTENDS Integers, Sequences, FiniteSets, TLC

VARIABLES
    results,      \* SpecCorr: the List[SourceResult] handed to correlate
    correlated,   \* SpecCorr: the CorrelatedResult returned, or NotRun
    riskBreaches, \* SpecRisk: the List[CorrelatedBreach] handed to _calculate_risk_score
    riskScore,    \* SpecRisk: the score it returned
    response,     \* SpecFetch: the last HTTP exchange of the source and what fetch made of it
    report,       \* SpecCli: what do_email_check has printed, or NotRun
    norm,         \* SpecNorm: a breach name and what the normalizations make of it
    pw,           \* SpecPwd: the password being checked
    pwApi,        \* SpecPwd: which entry point is running and where it stands
    pwRequests,   \* SpecPwd: every HTTP request sent so far
    pwResult,     \* SpecPwd: the dictionary returned / exception raised
    config,       \* agent: AgentConfig
    sources,      \* agent: BreachIntelligenceAgent.sources (names, by priority)
    health,       \* agent: source name -> SourceHealth
    metrics,      \* agent: AgentMetrics
    limiter,      \* agent: AdaptiveRateLimiter
    calls,        \* agent: the check_email invocations (coroutines)
    batch,        \* agent: the check_emails_batch invocation
    now           \* agent: datetime.now(), in seconds

corrVars  == <<results, correlated, riskBreaches, riskScore, response, report, norm>>
pwVars    == <<pw, pwApi, pwRequests, pwResult>>
agentVars == <<config, sources, health, metrics, limiter, calls, batch, now>>
vars      == <<results, correlated, riskBreaches, riskScore, response, report, norm, pw, pwApi, pwRequests, pwResult,
               config, sources, health, metrics, limiter, calls, batch, now>>

\* Python's None (for text-valued fields: a one-element sequence that is no text).
None == <<"<None>">>
\* A dictionary key that is absent (dict.get falls back to its default).
Missing == <<"<missing>">>
\* A record-valued variable that holds no value yet.
NotRun == [pc |-> "not_run"]

Min(a, b) == IF a <= b THEN a ELSE b
Max(a, b) == IF a >= b THEN a ELSE b

(***************************************************************************)
(* Characters                                                              *)
(***************************************************************************)
LowerLetters == <<"a", "b", "c", "d", "e", "f", "g", "h", "i", "j", "k", "l", "m",
                  "n", "o", "p", "q", "r", "s", "t", "u", "v", "w", "x", "y", "z">>
UpperLetters == <<"A", "B", "C", "D", "E", "F", "G", "H", "I", "J", "K", "L", "M",
                  "N", "O", "P", "Q", "R", "S", "T", "U", "V", "W", "X", "Y", "Z">>
Digits == <<"0", "1", "2", "3", "4", "5", "6", "7", "8", "9">>

Range(s) == {s[i] : i \in 1..Len(s)}

IndexOf(s, c) == CHOOSE i \in 1..Len(s) : s[i] = c

\* str.lower() on one character
LowerChar(c) ==
    IF c \in Range(UpperLetters) THEN LowerLetters[IndexOf(UpperLetters, c)] ELSE c

\* str.upper() on one character
UpperChar(c) ==
    IF c \in Range(LowerLetters) THEN UpperLetters[IndexOf(LowerLetters, c)] ELSE c

Lower(s) == [i \in 1..Len(s) |-> LowerChar(s[i])]
Upper(s) == [i \in 1..Len(s) |-> UpperChar(s[i])]

IsSpace(c) == c \in {" ", "\t", "\n"}
IsDigit(c) == c \in Range(Digits)
DigitVal(c) == IndexOf(Digits, c) - 1

\* the character class [a-z0-9] of the regular expression
IsLowerAlnum(c) == c \in Range(LowerLetters) \cup Range(Digits)

\* str.strip()
RECURSIVE LStrip(_)
LStrip(s) == IF s # <<>> /\ IsSpace(Head(s)) THEN LStrip(Tail(s)) ELSE s
RECURSIVE RStrip(_)
RStrip(s) ==
    IF s # <<>> /\ IsSpace(s[Len(s)]) THEN RStrip(SubSeq(s, 1, Len(s) - 1)) ELSE s
Strip(s) == RStrip(LStrip(s))

\* code point order of the characters that occur in names (ASCII)
CharOrder == <<" ", "!", "-", ".">> \o Digits \o UpperLetters \o LowerLetters
Ord(c) == IndexOf(CharOrder, c)

\* Python's str <: lexicographic by code point, a proper prefix is smaller
RECURSIVE StrLess(_, _)
StrLess(a, b) ==
    IF b = <<>> THEN FALSE
    ELSE IF a = <<>> THEN TRUE
    ELSE IF Head(a) = Head(b) THEN StrLess(Tail(a), Tail(b))
    ELSE Ord(Head(a)) < Ord(Head(b))

\* x in list
InSeq(x, s) == \E i \in 1..Len(s) : s[i] = x

\* the contiguous occurrence of one text in another ("needle in haystack")
Contains(hay, needle) ==
    \E i \in 0..(Len(hay) - Len(needle)) :
        \A j \in 1..Len(needle) : hay[i + j] = needle[j]

\* no element twice
NoDup(s) == \A i, j \in 1..Len(s) : s[i] = s[j] => i = j

(***************************************************************************)
(* Texts of the program (string literals) and of the inputs                *)
(***************************************************************************)
T_Unknown == <<"U", "n", "k", "n", "o", "w", "n">>
T_adobe == <<"a", "d", "o", "b", "e">>
T_adobesystems == <<"a", "d", "o", "b", "e", "s", "y", "s", "t", "e", "m", "s">>
T_linkedin == <<"l", "i", "n", "k", "e", "d", "i", "n">>
T_linkedincom == <<"l", "i", "n", "k", "e", "d", "i", "n", "c", "o", "m">>
T_dropbox == <<"d", "r", "o", "p", "b", "o", "x">>
T_dropboxcom == <<"d", "r", "o", "p", "b", "o", "x", "c", "o", "m">>
T_password == <<"p", "a", "s", "s", "w", "o", "r", "d">>
T_passwords == <<"p", "a", "s", "s", "w", "o", "r", "d", "s">>
T_financial == <<"f", "i", "n", "a", "n", "c", "i", "a", "l">>
T_credit_card == <<"c", "r", "e", "d", "i", "t", " ", "c", "a", "r", "d">>
T_ssn == <<"s", "s", "n">>
T_health == <<"h", "e", "a", "l", "t", "h">>
\* raw breach names, as the providers spell them
T_Adobe == <<"A", "d", "o", "b", "e">>
T_ADOBE_sp == <<" ", "A", "D", "O", "B", "E", " ">>
T_Adobe_Systems == <<"A", "d", "o", "b", "e", " ", "S", "y", "s", "t", "e", "m", "s">>
T_LinkedIn == <<"L", "i", "n", "k", "e", "d", "I", "n">>
T_linkedin_com == <<"l", "i", "n", "k", "e", "d", "i", "n", ".", "c", "o", "m">>
T_Zynga == <<"Z", "y", "n", "g", "a">>
\* data classes
T_Passwords == <<"P", "a", "s", "s", "w", "o", "r", "d", "s">>
T_Credit_Card == <<"C", "r", "e", "d", "i", "t", " ", "C", "a", "r", "d">>
T_Health == <<"H", "e", "a", "l", "t", "h">>
T_Email == <<"E", "m", "a", "i", "l">>
\* dates
D_2013 == <<"2", "0", "1", "3", "-", "1", "0", "-", "0", "4">>
D_2025 == <<"2", "0", "2", "5", "-", "0", "6", "-", "0", "1">>
D_2024 == <<"2", "0", "2", "4", "-", "0", "1", "-", "1", "5">>
D_2023 == <<"2", "0", "2", "3", "-", "1", "2", "-", "3", "1">>
D_none == <<"n", "-", "a", " ", "1", "8", "5", "0">>
\* error messages
E_RateLimited == <<"R", "a", "t", "e", " ", "l", "i", "m", "i", "t", "e", "d">>
E_RateLimitExceeded == <<"R", "a", "t", "e", " ", "l", "i", "m", "i", "t", " ",
                         "e", "x", "c", "e", "e", "d", "e", "d">>
E_Status500 == <<"A", "P", "I", " ", "r", "e", "t", "u", "r", "n", "e", "d", " ",
                 "s", "t", "a", "t", "u", "s", " ", "5", "0", "0">>
E_TimedOut == <<"R", "e", "q", "u", "e", "s", "t", " ", "t", "i", "m", "e", "d", " ",
                "o", "u", "t">>
E_Unknown == <<"U", "n", "k", "n", "o", "w", "n", " ", "e", "r", "r", "o", "r">>
E_Boom == <<"b", "o", "o", "m">>
E_AllFailed == <<"A", "l", "l", " ", "s", "o", "u", "r", "c", "e", "s", " ",
                 "f", "a", "i", "l", "e", "d">>
E_rate_limit == <<"r", "a", "t", "e", " ", "l", "i", "m", "i", "t">>
E_MaxRetries == <<"M", "a", "x", " ", "r", "e", "t", "r", "i", "e", "s", " ",
                  "e", "x", "c", "e", "e", "d", "e", "d">>

\* `not x` for an Optional[str]
Falsy(x) == x = None \/ x = <<>>

(***************************************************************************)
(* agent/sources.py : SourceResult                                         *)
(***************************************************************************)
\* a raw per-breach dictionary: keys is the set of keys present
RawBreach(keys, name, date, data_classes) ==
    [keys |-> keys, name |-> name, date |-> date, data_classes |-> data_classes]

\* dict.get(key, default)
Get(d, key, default) == IF key \in d.keys THEN d[key] ELSE default

SourceResult(source_name, breached, breaches, error) ==
    [source_name |-> source_name, breached |-> breached,
     breaches |-> breaches, error |-> error]

\* SourceResult.success as "the error is empty" instead of "the error is None"
success_Falsy(r) == Falsy(r.error)

\* SourceResult.success
success(r) == r.error = None

(***************************************************************************)
(* agent/correlation.py                                                    *)
(***************************************************************************)
\* re.sub with count=1: only the first character outside [a-z0-9] is removed
RECURSIVE SubFirst(_)
SubFirst(s) ==
    IF s = <<>> THEN <<>>
    ELSE IF IsLowerAlnum(Head(s)) THEN <<Head(s)>> \o SubFirst(Tail(s))
    ELSE Tail(s)

normalize_breach_name_SubOnce(name) ==
    IF Falsy(name) THEN <<>>
    ELSE SubFirst(Strip(Lower(name)))

normalize_breach_name(name) ==
    IF Falsy(name) THEN <<>>
    ELSE SelectSeq(Strip(Lower(name)), IsLowerAlnum)

\* the year that datetime.now().year returns while the model runs
CurrentYear == 2026
\* extract_year's None
NoYear == -1

\* re.search(r'(19|20)\d{2}', s): the first position where the pattern matches
YearMatchAt(s, i) ==
    /\ i + 3 <= Len(s)
    /\ \/ s[i] = "1" /\ s[i + 1] = "9"
       \/ s[i] = "2" /\ s[i + 1] = "0"
    /\ IsDigit(s[i + 2])
    /\ IsDigit(s[i + 3])

extract_year(date_str) ==
    IF Falsy(date_str) THEN NoYear
    ELSE IF \E i \in 1..Len(date_str) : YearMatchAt(date_str, i)
         THEN LET i == CHOOSE k \in 1..Len(date_str) :
                          /\ YearMatchAt(date_str, k)
                          /\ \A j \in 1..(k - 1) : ~YearMatchAt(date_str, j)
              IN  1000 * DigitVal(date_str[i]) + 100 * DigitVal(date_str[i + 1])
                  + 10 * DigitVal(date_str[i + 2]) + DigitVal(date_str[i + 3])
         ELSE NoYear

\* CorrelationEngine._known_aliases
KnownAliases ==
    {<<T_adobe, T_adobe>>, <<T_adobesystems, T_adobe>>,
     <<T_linkedin, T_linkedin>>, <<T_linkedincom, T_linkedin>>,
     <<T_dropbox, T_dropbox>>, <<T_dropboxcom, T_dropbox>>}

_normalize_with_aliases(name) ==
    LET normalized == normalize_breach_name(name)
    IN  IF \E a \in KnownAliases : a[1] = normalized
        THEN (CHOOSE a \in KnownAliases : a[1] = normalized)[2]
        ELSE normalized

\* confidence is kept in units of 1/ConfidenceScale: 0.33 is 99, n/3 is 100 n
ConfidenceScale == 300
\* the confidence 0.33 of a newly inserted CorrelatedBreach
InsertConfidence == 99

\* min(1.0, len(self.sources) / 3)
MergedConfidence(srcs) == Min(ConfidenceScale, (ConfidenceScale \div 3) * Len(srcs))

\* for dc in other: if dc not in self.data_classes: self.data_classes.append(dc)
RECURSIVE AppendAbsent(_, _)
AppendAbsent(list, more) ==
    IF more = <<>> THEN list
    ELSE AppendAbsent(IF InSeq(Head(more), list) THEN list ELSE Append(list, Head(more)),
                      Tail(more))

\* merge_from without the test "if source not in self.sources"
merge_from_AlwaysAppend(self, other, source) ==
    LET srcs == Append(self.sources, source)
        odate == Get(other, "date", None)
        takeDate == Falsy(self.date) /\ ~Falsy(odate)
        odc == Get(other, "data_classes", <<>>)
    IN  [self EXCEPT
            !.sources = srcs,
            !.date = IF takeDate THEN odate ELSE @,
            !.year = IF takeDate THEN extract_year(odate) ELSE @,
            !.data_classes = AppendAbsent(@, odc),
            !.confidence = MergedConfidence(srcs)]

\* CorrelatedBreach.merge_from(other, source)
merge_from(self, other, source) ==
    LET srcs == IF InSeq(source, self.sources) THEN self.sources
                ELSE Append(self.sources, source)
        odate == Get(other, "date", None)
        takeDate == Falsy(self.date) /\ ~Falsy(odate)
        odc == Get(other, "data_classes", <<>>)
    IN  [self EXCEPT
            !.sources = srcs,
            !.date = IF takeDate THEN odate ELSE @,
            !.year = IF takeDate THEN extract_year(odate) ELSE @,
            !.data_classes = AppendAbsent(@, odc),
            !.confidence = MergedConfidence(srcs)]

\* the CorrelatedBreach that correlate creates for a name it has not seen
NewCorrelatedBreach(breach, source) ==
    LET name == Get(breach, "name", T_Unknown)
    IN  [name |-> name,
         normalized_name |-> _normalize_with_aliases(name),
         date |-> Get(breach, "date", None),
         year |-> extract_year(Get(breach, "date", None)),
         data_classes |-> Get(breach, "data_classes", <<T_Unknown>>),
         sources |-> <<source>>,
         confidence |-> InsertConfidence]

\* the accumulator looked up by the display name instead of the normalized name
KeyIndex_ByName(acc, key) ==
    IF \E i \in 1..Len(acc) : acc[i].name = key
    THEN CHOOSE i \in 1..Len(acc) : acc[i].name = key
    ELSE 0

\* the position of the entry with this key in the accumulator (0: absent)
KeyIndex(acc, key) ==
    IF \E i \in 1..Len(acc) : acc[i].normalized_name = key
    THEN CHOOSE i \in 1..Len(acc) : acc[i].normalized_name = key
    ELSE 0

\* one iteration of "for breach in result.breaches"
AddBreach(acc, breach, source) ==
    LET k == KeyIndex(acc, _normalize_with_aliases(Get(breach, "name", T_Unknown)))
    IN  IF k # 0 THEN [acc EXCEPT ![k] = merge_from(acc[k], breach, source)]
        ELSE Append(acc, NewCorrelatedBreach(breach, source))

RECURSIVE AddBreaches(_, _, _)
AddBreaches(acc, breaches, source) ==
    IF breaches = <<>> THEN acc
    ELSE AddBreaches(AddBreach(acc, Head(breaches), source), Tail(breaches), source)

\* correlated_breaches (in the dictionary's insertion order) after the loop over results
RECURSIVE CorrelatedBreaches(_, _)
CorrelatedBreaches(acc, rs) ==
    IF rs = <<>> THEN acc
    ELSE CorrelatedBreaches(
             IF success(Head(rs))
             THEN AddBreaches(acc, Head(rs).breaches, Head(rs).source_name)
             ELSE acc,
             Tail(rs))

\* the sort key (b.year or 0, b.name), compared as Python compares tuples
YearOr0(b) == IF b.year = NoYear THEN 0 ELSE b.year
KeyLess(a, b) ==
    \/ YearOr0(a) < YearOr0(b)
    \/ YearOr0(a) = YearOr0(b) /\ StrLess(a.name, b.name)

\* list.sort(key=..., reverse=True): stable, descending
RECURSIVE InsertDesc(_, _)
InsertDesc(sorted, b) ==
    IF sorted = <<>> THEN <<b>>
    ELSE IF KeyLess(Head(sorted), b) THEN <<b>> \o sorted
    ELSE <<Head(sorted)>> \o InsertDesc(Tail(sorted), b)

\* the list left in the order of the dictionary: the sort omitted
SortDesc_Unsorted(list) == list

RECURSIVE SortDesc(_)
SortDesc(list) ==
    IF list = <<>> THEN <<>>
    ELSE InsertDesc(SortDesc(SubSeq(list, 1, Len(list) - 1)), list[Len(list)])

RECURSIVE SumSeq(_)
SumSeq(s) == IF s = <<>> THEN 0 ELSE Head(s) + SumSeq(Tail(s))

CountIf(s, P(_)) == Cardinality({i \in 1..Len(s) : P(s[i])})

SensitiveData == {T_password, T_passwords, T_financial, T_credit_card, T_ssn, T_health}

\* _calculate_risk_score adding 10 for every sensitive data class (no break)
_calculate_risk_score_PerClass(breaches) ==
    LET Recent(b) == b.year # NoYear /\ b.year # 0 /\ CurrentYear - b.year <= 2
        SensitiveCount(b) == Cardinality({i \in 1..Len(b.data_classes) :
                                             Lower(b.data_classes[i]) \in SensitiveData})
        HighConf(b) == 2 * b.confidence >= ConfidenceScale
    IN  IF breaches = <<>> THEN 0
        ELSE Min(100, Min(Len(breaches) * 5, 40)
                      + CountIf(breaches, Recent) * 15
                      + SumSeq([i \in 1..Len(breaches) |-> SensitiveCount(breaches[i])]) * 10
                      + CountIf(breaches, HighConf) * 5)

\* _calculate_risk_score without min(len(breaches) * 5, 40) and min(100.0, score)
_calculate_risk_score_NoCap(breaches) ==
    LET Recent(b) == b.year # NoYear /\ b.year # 0 /\ CurrentYear - b.year <= 2
        Sensitive(b) == \E i \in 1..Len(b.data_classes) :
                            Lower(b.data_classes[i]) \in SensitiveData
        HighConf(b) == 2 * b.confidence >= ConfidenceScale
    IN  IF breaches = <<>> THEN 0
        ELSE Len(breaches) * 5
             + CountIf(breaches, Recent) * 15
             + CountIf(breaches, Sensitive) * 10
             + CountIf(breaches, HighConf) * 5

\* CorrelationEngine._calculate_risk_score
_calculate_risk_score(breaches) ==
    LET Recent(b) == b.year # NoYear /\ b.year # 0 /\ CurrentYear - b.year <= 2
        Sensitive(b) == \E i \in 1..Len(b.data_classes) :
                            Lower(b.data_classes[i]) \in SensitiveData
        HighConf(b) == 2 * b.confidence >= ConfidenceScale
    IN  IF breaches = <<>> THEN 0
        ELSE Min(100, Min(Len(breaches) * 5, 40)
                      + CountIf(breaches, Recent) * 15
                      + CountIf(breaches, Sensitive) * 10
                      + CountIf(breaches, HighConf) * 5)

\* the names of the results that satisfy / do not satisfy success, in order
NamesWhere(rs, ok) ==
    LET idx == SelectSeq([i \in 1..Len(rs) |-> i], LAMBDA i : success(rs[i]) = ok)
    IN  [k \in 1..Len(idx) |-> rs[idx[k]].source_name]

\* correlate with is_breached taken from sources_succeeded instead of breaches_list
correlate_BreachedWhenAnswered(rs, email) ==
    LET breaches_list == SortDesc(CorrelatedBreaches(<<>>, rs))
    IN  [email |-> email,
         breached |-> Len(NamesWhere(rs, TRUE)) > 0,
         breach_count |-> Len(breaches_list),
         breaches |-> breaches_list,
         sources_queried |-> [i \in 1..Len(rs) |-> rs[i].source_name],
         sources_succeeded |-> NamesWhere(rs, TRUE),
         sources_failed |-> NamesWhere(rs, FALSE),
         average_confidence |->
             IF breaches_list = <<>> THEN <<0, 1>>
             ELSE <<SumSeq([i \in 1..Len(breaches_list) |-> breaches_list[i].confidence]),
                    ConfidenceScale * Len(breaches_list)>>,
         risk_score |-> _calculate_risk_score(breaches_list)]

\* CorrelationEngine.correlate(results, email)
correlate(rs, email) ==
    LET breaches_list == SortDesc(CorrelatedBreaches(<<>>, rs))
    IN  [email |-> email,
         breached |-> Len(breaches_list) > 0,
         breach_count |-> Len(breaches_list),
         breaches |-> breaches_list,
         sources_queried |-> [i \in 1..Len(rs) |-> rs[i].source_name],
         sources_succeeded |-> NamesWhere(rs, TRUE),
         sources_failed |-> NamesWhere(rs, FALSE),
         average_confidence |->
             IF breaches_list = <<>> THEN <<0, 1>>
             ELSE <<SumSeq([i \in 1..Len(breaches_list) |-> breaches_list[i].confidence]),
                    ConfidenceScale * Len(breaches_list)>>,
         risk_score |-> _calculate_risk_score(breaches_list)]

(***************************************************************************)
(* Specification SpecCorr: correlate applied to bounded lists of results   *)
(***************************************************************************)
\* the first sources of get_all_sources(), in the order of their priority
SourceNames == <<"LeakCheck", "XposedOrNot", "HackCheck">>

\* how many raw breaches the sources of one check report altogether, at most
MaxReports == 4

\* raw breach dictionaries as the source variants build them
RawBreaches ==
    {RawBreach({"name", "date", "data_classes"}, T_ADOBE_sp, D_2025, <<T_Email>>),
     RawBreach({"name"}, T_Adobe_Systems, None, <<>>),
     RawBreach({"name", "date", "data_classes"}, T_LinkedIn, D_2013, <<T_Passwords, T_Email>>)}

BreachLists(maxLen) == UNION {[1..n -> RawBreaches] : n \in 0..maxLen}

\* what one source can hand back: a success with a breach list, or a failure
ResultsOf(name, maxLen) ==
    {SourceResult(name, bl # <<>>, bl, None) : bl \in BreachLists(maxLen)}
    \cup {SourceResult(name, FALSE, <<>>, e) : e \in {<<>>, E_Status500}}

\* what the k-th source hands back when a list of n results is drawn
\* (a placeholder beyond the end of the list)
DrawResult(k, n, budget) ==
    IF k <= n THEN ResultsOf(SourceNames[k], budget)
    ELSE {SourceResult(SourceNames[k], FALSE, <<>>, None)}

\* results is one SourceResult for each of the first n sources, in the order of
\* the sources, with at most MaxReports raw breaches altogether
DrawResults(rs) ==
    \E n \in 0..Len(SourceNames) :
    \E r1 \in DrawResult(1, n, MaxReports) :
    \E r2 \in DrawResult(2, n, MaxReports - Len(r1.breaches)) :
    \E r3 \in DrawResult(3, n, MaxReports - Len(r1.breaches) - Len(r2.breaches)) :
        rs = SubSeq(<<r1, r2, r3>>, 1, n)

TheEmail == "a@x.com"

InitIdlePwd ==
    /\ pw = <<>>
    /\ pwApi = NotRun
    /\ pwRequests = <<>>
    /\ pwResult = NotRun

InitIdleRisk ==
    /\ riskBreaches = <<>>
    /\ riskScore = 0
    /\ response = NotRun
    /\ report = NotRun
    /\ norm = NotRun

InitIdleAgent ==
    /\ config = NotRun
    /\ sources = <<>>
    /\ health = <<>>
    /\ metrics = NotRun
    /\ limiter = NotRun
    /\ calls = <<>>
    /\ batch = NotRun
    /\ now = 0

InitCorr ==
    /\ DrawResults(results)
    /\ correlated = NotRun
    /\ InitIdleRisk
    /\ InitIdlePwd
    /\ InitIdleAgent

\* correlation_engine.correlate(results, email)
Correlate ==
    /\ correlated = NotRun
    /\ correlated' = correlate(results, TheEmail)
    /\ UNCHANGED <<results, riskBreaches, riskScore, response, report, norm, pwVars, agentVars>>

NextCorr == Correlate

SpecCorr == InitCorr /\ [][NextCorr]_vars

(***************************************************************************)
(* Claims about correlate (SpecCorr)                                       *)
(***************************************************************************)
\* the (result, breach) positions of the raw breaches that successful sources report
Reports(rs) ==
    {<<i, j>> \in (1..Len(rs)) \X (1..MaxReports + 1) :
        success(rs[i]) /\ j <= Len(rs[i].breaches)}

RawName(rs, p) == Get(rs[p[1]].breaches[p[2]], "name", T_Unknown)

\* the merge key the data model prescribes for a raw name
ReportKey(rs, p) == _normalize_with_aliases(RawName(rs, p))

ReportsOfKey(rs, key) == {p \in Reports(rs) : ReportKey(rs, p) = key}

Contributors(rs, key) == {rs[p[1]].source_name : p \in ReportsOfKey(rs, key)}

\* C9: correlate never returns two CorrelatedBreach entries with the same
\* normalized_name, and breach_count is the number of distinct normalized names
\* that the successful sources reported.
C9_MergedByNormalizedName ==
    correlated # NotRun =>
        /\ \A i, j \in 1..Len(correlated.breaches) :
               correlated.breaches[i].normalized_name
                   = correlated.breaches[j].normalized_name => i = j
        /\ correlated.breach_count
               = Cardinality({ReportKey(results, p) : p \in Reports(results)})
        /\ correlated.breach_count = Len(correlated.breaches)

\* two differently spelled raw names of one breach, reported by different sources,
\* were merged into one entry beside another breach
C9_Witness ==
    /\ correlated # NotRun
    /\ correlated.breach_count = 2
    /\ {T_Adobe_Systems, T_ADOBE_sp, T_LinkedIn}
           = {RawName(results, p) : p \in Reports(results)}
    /\ Cardinality(Contributors(results, T_adobe)) > 1

\* C10 (as amended): every entry of the result lists each contributing source
\* exactly once, also when a source reports the breach twice; its confidence is
\* min(1.0, len(sources)/3) as soon as the breach was reported more than once and
\* the insertion value 0.33 when it was reported exactly once; an entry reported
\* by three or more distinct sources has confidence 1.0.
C10_SourcesOnceAndConfidence ==
    correlated # NotRun =>
        \A k \in 1..Len(correlated.breaches) :
            LET b == correlated.breaches[k]
                contributors == Contributors(results, b.normalized_name)
                reports == ReportsOfKey(results, b.normalized_name)
            IN  /\ NoDup(b.sources)
                /\ Range(b.sources) = contributors
                /\ Cardinality(reports) = 1 => 100 * b.confidence = 33 * ConfidenceScale
                /\ Cardinality(reports) > 1 =>
                       3 * b.confidence
                           = Min(3 * ConfidenceScale, Len(b.sources) * ConfidenceScale)
                /\ Cardinality(contributors) >= 3 => b.confidence = ConfidenceScale

\* a breach reported by three sources, by one of them twice: confidence 1.0
C10_Witness ==
    /\ correlated # NotRun
    /\ \E k \in 1..Len(correlated.breaches) :
           /\ Len(correlated.breaches[k].sources) = 3
           /\ correlated.breaches[k].confidence = ConfidenceScale
           /\ Cardinality(ReportsOfKey(results, correlated.breaches[k].normalized_name)) > 3

\* C10 (as stated): confidence = min(1.0, len(sources)/3) for every entry
C10_Original ==
    correlated # NotRun =>
        \A k \in 1..Len(correlated.breaches) :
            LET b == correlated.breaches[k]
            IN  /\ NoDup(b.sources)
                /\ Range(b.sources) = Contributors(results, b.normalized_name)
                /\ 3 * b.confidence
                       = Min(3 * ConfidenceScale, Len(b.sources) * ConfidenceScale)

(***************************************************************************)
(* password_checker.py                                                     *)
(***************************************************************************)
P_password == <<"p", "a", "s", "s", "w", "o", "r", "d">>
P_Password == <<"P", "a", "s", "s", "w", "o", "r", "d">>

\* hashlib.sha1(text.encode("utf-8")).hexdigest() for the texts the model hashes
Sha1Hex ==
    {<<<<"p", "a", "s", "s", "w", "o", "r", "d">>,
       <<"5", "b", "a", "a", "6", "1", "e", "4", "c", "9", "b", "9", "3", "f", "3", "f",
         "0", "6", "8", "2", "2", "5", "0", "b", "6", "c", "f", "8", "3", "3", "1", "b",
         "7", "e", "e", "6", "8", "f", "d", "8">>>>,
     <<<<"p", "a", "s", "s", "w", "o", "r", "d", "1">>,
       <<"e", "3", "8", "a", "d", "2", "1", "4", "9", "4", "3", "d", "a", "a", "d", "1",
         "d", "6", "4", "c", "1", "0", "2", "f", "a", "e", "c", "2", "9", "d", "e", "4",
         "a", "f", "e", "9", "d", "a", "3", "d">>>>,
     <<<<"p", "a", "s", "s", "w", "o", "r", "d", "!">>,
       <<"7", "3", "4", "6", "a", "8", "4", "e", "2", "a", "9", "c", "f", "8", "c", "9",
         "0", "9", "c", "4", "5", "3", "e", "3", "5", "b", "7", "2", "8", "6", "6", "c",
         "d", "5", "2", "3", "7", "d", "e", "e">>>>,
     <<<<"P", "a", "s", "s", "w", "o", "r", "d">>,
       <<"8", "b", "e", "3", "c", "9", "4", "3", "b", "1", "6", "0", "9", "f", "f", "f",
         "b", "f", "c", "5", "1", "a", "a", "d", "6", "6", "6", "d", "0", "a", "0", "4",
         "a", "d", "f", "8", "3", "c", "9", "d">>>>,
     <<<<"P", "a", "s", "s", "w", "o", "r", "d", "1">>,
       <<"7", "0", "c", "c", "d", "9", "0", "0", "7", "3", "3", "8", "d", "6", "d", "8",
         "1", "d", "d", "3", "b", "6", "2", "7", "1", "6", "2", "1", "b", "9", "c", "f",
         "9", "a", "9", "7", "e", "a", "0", "0">>>>,
     <<<<"P", "a", "s", "s", "w", "o", "r", "d", "!">>,
       <<"e", "f", "8", "4", "2", "0", "d", "7", "0", "d", "d", "7", "6", "7", "6", "e",
         "0", "4", "b", "e", "a", "5", "5", "f", "4", "0", "5", "f", "a", "3", "9", "b",
         "0", "2", "2", "a", "9", "0", "c", "8">>>>}

hexdigest(text) == (CHOOSE e \in Sha1Hex : e[1] = text)[2]

\* hash_password_sha1
hash_password_sha1(password) == Upper(hexdigest(password))

\* sha1_hash[:6], sha1_hash[6:] : one character too many is sent
get_hash_prefix_suffix_Six(sha1_hash) ==
    <<SubSeq(sha1_hash, 1, 6), SubSeq(sha1_hash, 7, Len(sha1_hash))>>

\* get_hash_prefix_suffix: sha1_hash[:5], sha1_hash[5:]
get_hash_prefix_suffix(sha1_hash) ==
    <<SubSeq(sha1_hash, 1, 5), SubSeq(sha1_hash, 6, Len(sha1_hash))>>

\* config.HIBP_PASSWORD_API up to its placeholder {prefix}
HIBP_PASSWORD_API ==
    <<"h", "t", "t", "p", "s", ":", "/", "/", "a", "p", "i", ".", "p", "w", "n", "e", "d",
    "p", "a", "s", "s", "w", "o", "r", "d", "s", ".", "c", "o", "m", "/", "r", "a", "n",
    "g", "e", "/">>

\* the request that client.get(url, headers=headers) sends
Request(prefix, enable_padding) ==
    [url |-> HIBP_PASSWORD_API \o prefix,
     headers |-> {<<"User-Agent", "USER_AGENT">>}
                 \cup (IF enable_padding THEN {<<"Add-Padding", "true">>} ELSE {})]

\* the position of the first ":" of a line (0: none)
ColonAt(line) ==
    IF \E i \in 1..Len(line) : line[i] = ":"
    THEN CHOOSE i \in 1..Len(line) :
             line[i] = ":" /\ \A j \in 1..(i - 1) : line[j] # ":"
    ELSE 0

RECURSIVE DecimalValue(_)
DecimalValue(s) ==
    IF s = <<>> THEN 0
    ELSE 10 * DecimalValue(SubSeq(s, 1, Len(s) - 1)) + DigitVal(s[Len(s)])

\* try: int(count_str.strip()) except ValueError: 1
ParseCount(count_str) ==
    LET t == Strip(count_str)
    IN  IF t # <<>> /\ \A i \in 1..Len(t) : IsDigit(t[i]) THEN DecimalValue(t) ELSE 1

\* the loop over response.text.splitlines(): the dictionary returned
RECURSIVE ScanLines(_, _)
ScanLines(lines, suffix) ==
    IF lines = <<>> THEN [exposed |-> FALSE, count |-> 0]
    ELSE LET line == Head(lines)
             c == ColonAt(line)
         IN  IF c = 0 THEN ScanLines(Tail(lines), suffix)
             ELSE IF Upper(Strip(SubSeq(line, 1, c - 1))) = suffix
                  THEN [exposed |-> TRUE,
                        count |-> ParseCount(SubSeq(line, c + 1, Len(line)))]
                  ELSE ScanLines(Tail(lines), suffix)

\* the passwords the callers check
Passwords == {<<>>, P_password, P_Password}

PwdApis == {"check_password_hibp", "async_check_password_hibp",
            "PasswordChecker.check", "PasswordChecker.async_check"}

\* a line of the range response that belongs to another suffix (a padding line)
OtherSuffixLine == [i \in 1..35 |-> "0"] \o <<":", "0">>

\* response bodies (already split into lines) that the range API may answer with
Bodies(suffix) ==
    {<<>>,
     <<OtherSuffixLine>>,
     <<OtherSuffixLine, suffix \o <<":", "3">>>>,
     <<<<"n", "o", " ", "c", "o", "l", "o", "n">>, <<" ">> \o Lower(suffix) \o <<" ", ":", "x">>>>,
     <<suffix \o <<":", " ", "1", "2", " ">>, suffix \o <<":", "3">>>>}

\* what the network does with one request
Responses(suffix) ==
    {[kind |-> "status", code |-> 200, body |-> b] : b \in Bodies(suffix)}
    \cup {[kind |-> "status", code |-> c, body |-> <<>>] : c \in {429, 404, 500}}
    \cup {[kind |-> "TimeoutException", code |-> 0, body |-> <<>>],
          [kind |-> "RequestError", code |-> 0, body |-> <<>>]}

Return(d) == [kind |-> "return", exposed |-> d.exposed, count |-> d.count]
Raise(exc) == [kind |-> "raise", exposed |-> FALSE, count |-> 0, exc |-> exc]

\* check_password_hibp after client.get answered: the value returned or the
\* exception raised
check_password_hibp(suffix, resp) ==
    IF resp.kind = "TimeoutException" THEN Raise("NetworkError")
    ELSE IF resp.kind = "RequestError" THEN Raise("NetworkError")
    ELSE IF resp.code = 429 THEN Raise("RateLimitError")
    ELSE IF resp.code # 200 THEN Raise("APIError")
    ELSE Return(ScanLines(resp.body, suffix))

\* async_check_password_hibp after client.get answered (httpx.RequestError is
\* not caught there)
async_check_password_hibp(suffix, resp) ==
    IF resp.kind = "TimeoutException" THEN Raise("NetworkError")
    ELSE IF resp.kind = "RequestError" THEN Raise("httpx.RequestError")
    ELSE IF resp.code = 429 THEN Raise("RateLimitError")
    ELSE IF resp.code # 200 THEN Raise("APIError")
    ELSE Return(ScanLines(resp.body, suffix))

\* PasswordChecker.check: set(variations) without the password itself
Variations(password) ==
    {Lower(password), password \o <<"1">>, password \o <<"!">>} \ {password}

Prefix(text) == get_hash_prefix_suffix(hash_password_sha1(text))[1]
Suffix(text) == get_hash_prefix_suffix(hash_password_sha1(text))[2]

\* a lookup of text is under way: its request has been sent
Waiting(api, padding, text, stage, pending, acc) ==
    [pc |-> "waiting", api |-> api, padding |-> padding, lookup |-> text,
     stage |-> stage, pending |-> pending, acc |-> acc]

Finished(api) ==
    [pc |-> "done", api |-> api, padding |-> FALSE, lookup |-> <<>>,
     stage |-> "done", pending |-> {}, acc |-> Return([exposed |-> FALSE, count |-> 0])]

InitIdleCorr ==
    /\ results = <<>>
    /\ correlated = NotRun
    /\ InitIdleRisk

InitPwd ==
    /\ InitIdlePwd
    /\ InitIdleCorr
    /\ InitIdleAgent

\* one of the four entry points is called with a password: the empty password is
\* rejected, any other is hashed and the range request for its prefix is sent
PwdCall(api, password, enable_padding) ==
    /\ pwApi = NotRun
    /\ pw' = password
    /\ IF password = <<>>
       THEN /\ pwResult' = Raise("ValidationError")
            /\ pwApi' = Finished(api)
            /\ UNCHANGED pwRequests
       ELSE /\ pwRequests' = Append(pwRequests, Request(Prefix(password), enable_padding))
            /\ pwApi' = Waiting(api, enable_padding, password, "exact",
                                IF api = "PasswordChecker.check"
                                THEN Variations(password) ELSE {},
                                Return([exposed |-> FALSE, count |-> 0]))
            /\ UNCHANGED pwResult
    /\ UNCHANGED <<corrVars, agentVars>>

\* the next variation of PasswordChecker.check is looked up, or check returns
PwdContinue(acc, pending) ==
    IF pending = {}
    THEN /\ pwResult' = acc
         /\ pwApi' = Finished(pwApi.api)
         /\ UNCHANGED pwRequests
    ELSE \E var \in pending :
            /\ pwRequests' = Append(pwRequests, Request(Prefix(var), TRUE))
            /\ pwApi' = Waiting(pwApi.api, TRUE, var, "variant", pending \ {var}, acc)
            /\ UNCHANGED pwResult

\* the variant loop adding the counts up instead of keeping the largest
LayerVariant_Sum(acc, res) ==
    IF res.kind = "return" /\ res.exposed
    THEN Return([exposed |-> TRUE, count |-> acc.count + res.count])
    ELSE acc

\* one iteration of "for var in set(variations)" once the lookup of var is
\* over: a hit raises exposed and max_count, "except: continue" swallows every
\* failure
LayerVariant(acc, res) ==
    IF res.kind = "return" /\ res.exposed
    THEN Return([exposed |-> TRUE, count |-> Max(acc.count, res.count)])
    ELSE acc

\* the range API answers (or the request fails) and the caller goes on
PwdResponse(resp) ==
    /\ pwApi # NotRun
    /\ pwApi.pc = "waiting"
    /\ resp \in Responses(Suffix(pwApi.lookup))
    /\ LET sync == pwApi.api \in {"check_password_hibp", "PasswordChecker.check"}
           res == IF sync THEN check_password_hibp(Suffix(pwApi.lookup), resp)
                  ELSE async_check_password_hibp(Suffix(pwApi.lookup), resp)
       IN  IF pwApi.stage = "exact"
           THEN IF res.kind = "raise"
                THEN /\ pwResult' = res
                     /\ pwApi' = Finished(pwApi.api)
                     /\ UNCHANGED pwRequests
                ELSE PwdContinue(res, pwApi.pending)
           ELSE PwdContinue(LayerVariant(pwApi.acc, res), pwApi.pending)
    /\ UNCHANGED <<pw, corrVars, agentVars>>

NextPwd ==
    \/ \E api \in PwdApis, password \in Passwords, enable_padding \in BOOLEAN :
           PwdCall(api, password, enable_padding)
    \/ \E suffix \in {Suffix(t) : t \in {e[1] : e \in Sha1Hex}} :
       \E resp \in Responses(suffix) : PwdResponse(resp)

SpecPwd == InitPwd /\ [][NextPwd]_vars

\* every text whose digest the model knows
HashedTexts == {e[1] : e \in Sha1Hex}

IsUpperHex(c) == IsDigit(c) \/ c \in {"A", "B", "C", "D", "E", "F"}

\* the part of a request URL that follows the fixed range URL
UrlTail(req) == SubSeq(req.url, Len(HIBP_PASSWORD_API) + 1, Len(req.url))

\* C3: every request of a password check carries, after the fixed range URL,
\* exactly 5 upper-case hex characters, the first 5 of an upper-case SHA-1 digest;
\* neither the plaintext nor the full digest nor the 35-character suffix of the
\* password (or of any looked-up variation) occurs in that part or in a header;
\* each lookup sends one request only, so the suffix is compared locally.
C3_OnlyPrefixTransmitted ==
    /\ \A k \in 1..Len(pwRequests) :
        LET req == pwRequests[k]
        IN  /\ SubSeq(req.url, 1, Len(HIBP_PASSWORD_API)) = HIBP_PASSWORD_API
            /\ Len(UrlTail(req)) = 5
            /\ \A i \in 1..5 : IsUpperHex(UrlTail(req)[i])
            /\ \E t \in HashedTexts :
                   UrlTail(req) = SubSeq(Upper(hexdigest(t)), 1, 5)
            /\ \A t \in HashedTexts :
                   /\ ~Contains(UrlTail(req), t)
                   /\ ~Contains(UrlTail(req), Upper(hexdigest(t)))
                   /\ ~Contains(UrlTail(req), SubSeq(Upper(hexdigest(t)), 6, 40))
                   /\ ~Contains(Lower(UrlTail(req)), SubSeq(hexdigest(t), 6, 40))
            /\ req.headers \subseteq {<<"User-Agent", "USER_AGENT">>, <<"Add-Padding", "true">>}
    /\ pwApi # NotRun /\ pwApi.pc = "waiting" =>
           pwRequests[Len(pwRequests)].url = HIBP_PASSWORD_API \o
               SubSeq(Upper(hexdigest(pwApi.lookup)), 1, 5)
    /\ pwApi # NotRun =>
           Len(pwRequests) <= (IF pwApi.api = "PasswordChecker.check"
                               THEN 1 + Cardinality(Variations(pw)) ELSE 1)

\* PasswordChecker.check("Password") has looked up the password and its three
\* variations and returned: four requests were sent
C3_Witness ==
    /\ pwApi # NotRun
    /\ pwApi.pc = "done"
    /\ pwApi.api = "PasswordChecker.check"
    /\ pw = P_Password
    /\ Len(pwRequests) = 4
    /\ pwResult.kind = "return"
    /\ pwResult.exposed

(***************************************************************************)
(* agent/sources.py : SourceHealth                                         *)
(***************************************************************************)
\* an Optional[datetime] that is None
NoTime == -1

\* SourceHealth() as DataSource.__init__ creates it
NewSourceHealth ==
    [status |-> "unknown", consecutive_failures |-> 0, rate_limit_reset |-> NoTime,
     total_requests |-> 0, successful_requests |-> 0]

\* success_rate < 0.7, with success_rate = successful_requests / total_requests
\* (1.0 while no request was recorded)
SuccessRateBelow70(h) ==
    h.total_requests > 0 /\ 10 * h.successful_requests < 7 * h.total_requests

_update_status(h, t) ==
    [h EXCEPT !.status =
        IF h.rate_limit_reset # NoTime /\ t < h.rate_limit_reset THEN "rate_limited"
        ELSE IF h.consecutive_failures >= 5 THEN "unavailable"
        ELSE IF h.consecutive_failures >= 2 \/ SuccessRateBelow70(h) THEN "degraded"
        ELSE "healthy"]

\* record_success that leaves consecutive_failures as it is
record_success_KeepFailures(h, t) ==
    _update_status([h EXCEPT !.total_requests = @ + 1,
                             !.successful_requests = @ + 1], t)

record_success(h, t) ==
    _update_status([h EXCEPT !.consecutive_failures = 0,
                             !.total_requests = @ + 1,
                             !.successful_requests = @ + 1], t)

\* retry_after is a number of seconds, 0 standing for None (both are falsy in
\* "if retry_after:"); no source passes it, so in the agent the reset is 60
\* seconds away
record_failure(h, is_rate_limit, retry_after, t) ==
    LET h1 == [h EXCEPT !.consecutive_failures = @ + 1, !.total_requests = @ + 1]
    IN  IF is_rate_limit
        THEN [h1 EXCEPT !.rate_limit_reset = IF retry_after # 0 THEN t + retry_after
                                             ELSE t + 60,
                        !.status = "rate_limited"]
        ELSE _update_status(h1, t)

\* SourceHealth.is_available: the answer and the health it leaves behind
is_available(h, t) ==
    IF h.status = "rate_limited"
    THEN IF h.rate_limit_reset # NoTime /\ t >= h.rate_limit_reset
         THEN [available |-> TRUE,
               health |-> [h EXCEPT !.status = "healthy", !.rate_limit_reset = NoTime]]
         ELSE [available |-> FALSE, health |-> h]
    ELSE [available |-> h.status # "unavailable", health |-> h]

(***************************************************************************)
(* agent/sources.py : what one DataSource.fetch call can do.  A built-in   *)
(* source maps the HTTP outcome to a SourceResult and records it in its    *)
(* health; a source registered by the caller may also raise.               *)
(***************************************************************************)
\* the breach lists a source answers with in the agent specifications
AgentBreachLists ==
    {<<>>,
     <<RawBreach({"name", "date", "data_classes"}, T_ADOBE_sp, D_2025, <<T_Email>>)>>}

E_ValidationFailed == <<"b", "a", "d", " ", "e", "m", "a", "i", "l">>

\* kind: what happened; result: the SourceResult returned (None when raised);
\* record: the health update; exc_type / exc_text: the exception raised
FetchOutcome(kind, result, record, exc_type, exc_text) ==
    [kind |-> kind, result |-> result, record |-> record,
     exc_type |-> exc_type, exc_text |-> exc_text]

\* fetch of the six built-in sources: every HTTP outcome becomes a SourceResult
BuiltinOutcomes(name) ==
    {FetchOutcome("200", SourceResult(name, bl # <<>>, bl, None), "success", "", <<>>) :
        bl \in AgentBreachLists}
    \cup {FetchOutcome("404", SourceResult(name, FALSE, <<>>, None), "success", "", <<>>),
          FetchOutcome("429", SourceResult(name, FALSE, <<>>, E_RateLimited),
                       "rate_limit", "", <<>>),
          FetchOutcome("500", SourceResult(name, FALSE, <<>>, E_Status500),
                       "failure", "", <<>>),
          FetchOutcome("httpx.TimeoutException",
                       SourceResult(name, FALSE, <<>>, E_TimedOut), "failure", "", <<>>),
          \* except Exception as e: error=str(e), and str(e) may be empty
          FetchOutcome("Exception", SourceResult(name, FALSE, <<>>, <<>>),
                       "failure", "", <<>>)}

\* fetch of a DataSource subclass the caller put into agent.sources: it may
\* return a result without touching its health, or raise
CustomOutcomes(name) ==
    {FetchOutcome("return", SourceResult(name, bl # <<>>, bl, None), "none", "", <<>>) :
        bl \in AgentBreachLists}
    \cup {FetchOutcome("raise", None, "none", "RuntimeError", E_Boom),
          FetchOutcome("raise", None, "none", "ValidationError", E_ValidationFailed)}

FetchOutcomes(name) ==
    IF name = "Custom" THEN CustomOutcomes(name) ELSE BuiltinOutcomes(name)

\* the health of the source after the fetch outcome o at time t
HealthAfter(h, o, t) ==
    CASE o.record = "success"    -> record_success(h, t)
      [] o.record = "rate_limit" -> record_failure(h, TRUE, 0, t)
      [] o.record = "failure"    -> record_failure(h, FALSE, 0, t)
      \* record_success after response.json(), then the handler of the
      \* exception that the reading of the data raised
      [] o.record = "success_failure" ->
             record_failure(record_success(h, t), FALSE, 0, t)
      [] OTHER                   -> h

(***************************************************************************)
(* agent/rate_limiter.py : RateLimitState and AdaptiveRateLimiter.         *)
(* The clock counts seconds; the back-off is a float that is doubled and   *)
(* halved, so current_backoff_seconds and backoff_until are kept in        *)
(* eighths of a second (1.0 s is 8, the 60.0 s maximum is 480).            *)
(***************************************************************************)
\* RateLimitState(max_requests_per_window=60, window_seconds=60) created at t
NewRateLimitState(t) ==
    [requests_made |-> 0, window_start |-> t, backoff_until |-> NoTime,
     current_backoff_seconds |-> 8]

\* can_make_request comparing with <= : one request more than the maximum
can_make_request_OneMore(s, t) ==
    IF s.backoff_until # NoTime /\ 8 * t < s.backoff_until
    THEN [ok |-> FALSE, state |-> s]
    ELSE LET s1 == IF t - s.window_start >= 60
                   THEN [s EXCEPT !.requests_made = 0, !.window_start = t]
                   ELSE s
         IN  [ok |-> s1.requests_made <= 60, state |-> s1]

\* can_make_request: the answer and the state it leaves (the window may restart)
can_make_request(s, t) ==
    IF s.backoff_until # NoTime /\ 8 * t < s.backoff_until
    THEN [ok |-> FALSE, state |-> s]
    ELSE LET s1 == IF t - s.window_start >= 60
                   THEN [s EXCEPT !.requests_made = 0, !.window_start = t]
                   ELSE s
         IN  [ok |-> s1.requests_made < 60, state |-> s1]

record_request(s) == [s EXCEPT !.requests_made = @ + 1]

\* record_rate_limit(retry_after), retry_after in seconds and 0 standing for
\* None: a hint is taken as it is, without a hint the back-off doubles, capped
\* at max_backoff_seconds (60 s)
record_rate_limit(s, retry_after, t) ==
    IF retry_after # 0
    THEN [s EXCEPT !.backoff_until = 8 * (t + retry_after),
                   !.current_backoff_seconds = 8 * retry_after]
    ELSE LET b == Min(s.current_backoff_seconds * 2, 480)
         IN  [s EXCEPT !.current_backoff_seconds = b, !.backoff_until = 8 * t + b]

\* record_success halving without the floor max(1.0, ...)
limit_record_success_NoFloor(s) ==
    [s EXCEPT !.current_backoff_seconds = s.current_backoff_seconds \div 2,
              !.backoff_until = NoTime]

\* RateLimitState.record_success: max(1.0, current_backoff_seconds * 0.5)
limit_record_success(s) ==
    [s EXCEPT !.current_backoff_seconds = Max(8, s.current_backoff_seconds \div 2),
              !.backoff_until = NoTime]

\* time_until_available, in eighths of a second
time_until_available(s, t) ==
    IF s.backoff_until # NoTime /\ s.backoff_until - 8 * t > 0
    THEN s.backoff_until - 8 * t
    ELSE IF s.requests_made >= 60
         THEN Max(0, 8 * (60 - (t - s.window_start)))
         ELSE 0

\* AdaptiveRateLimiter(global_max_concurrent): _semaphore holds the free permits
NewRateLimiter(global_max_concurrent) ==
    [_semaphore |-> global_max_concurrent, _concurrent_requests |-> 0,
     _source_limits |-> <<>>]

HasState(l, name) == name \in DOMAIN l._source_limits

_get_or_create_state(l, name, t) ==
    IF HasState(l, name) THEN l
    ELSE [l EXCEPT !._source_limits =
              [n \in DOMAIN l._source_limits \cup {name} |->
                  IF n = name THEN NewRateLimitState(t) ELSE l._source_limits[n]]]

\* acquire, from "await self._semaphore.acquire()" having got a permit to the
\* return: TRUE with the request counted, or FALSE with the permit given back
acquire_locked(l, name, t) ==
    LET c == can_make_request(l._source_limits[name], t)
    IN  IF c.ok
        THEN [acquired |-> TRUE,
              limiter |-> [l EXCEPT !._source_limits[name] = record_request(c.state),
                                    !._semaphore = @ - 1,
                                    !._concurrent_requests = @ + 1]]
        ELSE [acquired |-> FALSE,
              limiter |-> [l EXCEPT !._source_limits[name] = c.state]]

\* the agent calls release without retry_after (0 here)
release(l0, name, succeeded, rate_limited, retry_after, t) ==
    LET l == _get_or_create_state(l0, name, t)
        s == l._source_limits[name]
        s1 == IF rate_limited THEN record_rate_limit(s, retry_after, t)
              ELSE IF succeeded THEN limit_record_success(s)
              ELSE s
    IN  [l EXCEPT !._source_limits[name] = s1,
                  !._concurrent_requests = @ - 1,
                  !._semaphore = @ + 1]

(***************************************************************************)
(* agent/rate_limiter.py : RetryStrategy.should_retry                      *)
(***************************************************************************)
should_retry(attempt, error_type, max_retries) ==
    /\ attempt < max_retries
    /\ error_type \notin {"ValidationError", "AuthenticationError"}

(***************************************************************************)
(* agent/orchestrator.py : AgentMetrics, _validate_email                   *)
(***************************************************************************)
NewAgentMetrics ==
    [total_queries |-> 0, successful_queries |-> 0, failed_queries |-> 0,
     total_sources_queried |-> 0, total_breaches_found |-> 0]

record_query(m, result) ==
    LET ok == result.breached \/ result.sources_succeeded # <<>>
    IN  [m EXCEPT !.total_queries = @ + 1,
                  !.successful_queries = IF ok THEN @ + 1 ELSE @,
                  !.failed_queries = IF ok THEN @ ELSE @ + 1,
                  !.total_sources_queried = @ + Len(result.sources_queried),
                  !.total_breaches_found = @ + result.breach_count]

\* email_validator.validate_email(email, check_deliverability=False) on the
\* addresses the callers pass: the normalized address (the domain lower-cased),
\* or "" where the library raises EmailNotValidError
Emails == {"a@x.com", "b@X.COM", "not-an-email", "@"}

validate_email(email) ==
    CASE email = "a@x.com" -> "a@x.com"
      [] email = "b@X.COM" -> "b@x.com"
      [] OTHER             -> ""

\* _validate_email without the validation: every address passes as it is
_validate_email_AcceptAll(email) == [raised |-> FALSE, normalized |-> email]

\* _validate_email: the normalized address, or ValidationError
_validate_email(email) ==
    IF validate_email(email) = ""
    THEN [raised |-> TRUE, normalized |-> ""]
    ELSE [raised |-> FALSE, normalized |-> validate_email(email)]

(***************************************************************************)
(* agent/orchestrator.py : _query_source_with_retry under asyncio.wait_for *)
(* One task per source.  st is the await the coroutine is suspended at:    *)
(*   "start"       created by gather, not yet run                          *)
(*   "acq_sleep"   acquire: asyncio.sleep(wait_time), until wake           *)
(*   "acq_sem"     acquire: waiting for a permit of the semaphore          *)
(*   "fetch"       source.fetch: the request is in flight                  *)
(*   "retry_sleep" asyncio.sleep(delay) before the next attempt            *)
(*   "done"        finished: done_kind says with a result or an exception  *)
(***************************************************************************)
NewTask(name) ==
    [source |-> name, st |-> "start", attempt |-> 0, wake |-> 0,
     fetched |-> NotRun, done_kind |-> "", result |-> NotRun, exc_type |-> ""]

\* the coroutine returns r; its locals attempt and wake are gone
TaskReturn(task, r) ==
    [task EXCEPT !.st = "done", !.done_kind = "result", !.result = r,
                 !.attempt = 0, !.wake = 0]

\* the awaitable of the task raises; the locals of the coroutine are gone
TaskRaise(task, type) ==
    [task EXCEPT !.st = "done", !.done_kind = "exception", !.exc_type = type,
                 !.attempt = 0, !.wake = 0]

\* acquire once a permit of the semaphore is free
AcquirePermit(task, l, t) ==
    LET a == acquire_locked(l, task.source, t)
    IN  IF a.acquired
        THEN [task |-> [task EXCEPT !.st = "fetch"], limiter |-> a.limiter]
        ELSE [task |-> TaskReturn(task, SourceResult(task.source, FALSE, <<>>,
                                                      E_RateLimitExceeded)),
              limiter |-> a.limiter]

\* acquire after the optional sleep
AcquireSemaphore(task, l, t) ==
    IF l._semaphore > 0 THEN AcquirePermit(task, l, t)
    ELSE [task |-> [task EXCEPT !.st = "acq_sem"], limiter |-> l]

\* the head of one iteration of the retry loop, up to its first await
StartAttempt(task, l0, cfg, t) ==
    IF ~cfg.enable_rate_limiting
    THEN [task |-> [task EXCEPT !.st = "fetch"], limiter |-> l0]
    ELSE LET l == _get_or_create_state(l0, task.source, t)
             wait_time == time_until_available(l._source_limits[task.source], t)
         IN  IF wait_time > 0
             THEN [task |-> [task EXCEPT !.st = "acq_sleep", !.wake = 8 * t + wait_time],
                   limiter |-> l]
             ELSE AcquireSemaphore(task, l, t)

\* the rest of the iteration once fetch has returned or raised outcome o
AfterFetch(task, l0, cfg, o, t) ==
    LET raised == o.kind = "raise"
        err == IF raised THEN <<>> ELSE IF o.result.error = None THEN <<>>
                                        ELSE o.result.error
        l == IF ~cfg.enable_rate_limiting THEN l0
             ELSE IF raised THEN release(l0, task.source, FALSE, FALSE, 0, t)
             ELSE release(l0, task.source, success(o.result),
                          Contains(Lower(err), E_rate_limit), 0, t)
        error_type == IF raised THEN o.exc_type ELSE "Exception"
        error_text == IF raised THEN o.exc_text
                      ELSE IF Falsy(o.result.error) THEN E_Unknown ELSE o.result.error
        \* fetched keeps the successful answer of the source
        task1 == [task EXCEPT !.fetched = IF ~raised /\ success(o.result)
                                          THEN o.result ELSE @]
    IN  IF ~raised /\ success(o.result)
        THEN [task |-> TaskReturn(task1, o.result), limiter |-> l]
        ELSE IF should_retry(task.attempt, error_type, cfg.max_retries_per_source)
        THEN [task |-> [task1 EXCEPT !.st = "retry_sleep"], limiter |-> l]
        ELSE [task |-> TaskReturn(task1, SourceResult(task.source, FALSE, <<>>,
                                                       error_text)),
              limiter |-> l]

(***************************************************************************)
(* agent/orchestrator.py : BreachIntelligenceAgent.check_email             *)
(* A call is "idle" (not made), "gather" (awaiting asyncio.gather),        *)
(* "returned" or "raised".                                                 *)
(***************************************************************************)
\* out_of_order: some task finished while a task before it in the list had not
NewCall ==
    [pc |-> "idle", email |-> "", normalized |-> "", tasks |-> <<>>,
     out_of_order |-> FALSE, valid_results |-> <<>>, result |-> NotRun,
     exc_type |-> ""]

\* check_email from its first statement to "await asyncio.gather(*tasks)"
BeginCheckEmail(call, email, srcs) ==
    LET v == _validate_email(email)
    IN  IF v.raised
        THEN [call EXCEPT !.pc = "raised", !.email = email,
                          !.exc_type = "ValidationError"]
        ELSE IF srcs = <<>>
        THEN [call EXCEPT !.pc = "raised", !.email = email,
                          !.normalized = v.normalized, !.exc_type = "NetworkError"]
        ELSE [call EXCEPT !.pc = "gather", !.email = email,
                          !.normalized = v.normalized,
                          !.tasks = [i \in 1..Len(srcs) |-> NewTask(srcs[i])]]

\* results_raw -> valid_results: an exception becomes SourceResult(error=str(res));
\* the only exception a task ends with is asyncio.TimeoutError, whose str is ""
ValidResult(task) ==
    IF task.done_kind = "result" THEN task.result
    ELSE SourceResult(task.source, FALSE, <<>>, <<>>)

EndedWithResult(task) == task.done_kind = "result"

\* valid_results built by dropping the exceptions instead of converting them
ValidResults_DropExceptions(tasks) ==
    LET kept == SelectSeq(tasks, EndedWithResult)
    IN  [i \in 1..Len(kept) |-> kept[i].result]

ValidResults(tasks) == [i \in 1..Len(tasks) |-> ValidResult(tasks[i])]

\* a wait_for that cannot interrupt a fetch in flight
Suspended_ExceptFetch(task) == task.st \in {"acq_sleep", "acq_sem", "retry_sleep"}

\* the awaits at which the timeout of wait_for can cancel the coroutine
Suspended(task) == task.st \in {"acq_sleep", "acq_sem", "fetch", "retry_sleep"}

\* task i of call c moves on to the state task
SetTask(c, i, task) ==
    [calls EXCEPT ![c] =
        [@ EXCEPT !.tasks[i] = task,
                  !.out_of_order =
                      \/ @
                      \/ /\ task.st = "done"
                         /\ \E j \in 1..(i - 1) : calls[c].tasks[j].st # "done"]]

IdleOthers == UNCHANGED <<corrVars, pw, pwApi, pwRequests, pwResult>>

\* a caller awaits agent.check_email(email)
CheckEmail(c, email) ==
    /\ batch.pc = "off"
    /\ calls[c].pc = "idle"
    /\ calls' = [calls EXCEPT ![c] = BeginCheckEmail(@, email, sources)]
    /\ UNCHANGED <<config, sources, health, metrics, limiter, batch, now>>
    /\ IdleOthers

\* the event loop runs task i of call c for the first time
TaskBegin(c, i) ==
    /\ calls[c].pc = "gather"
    /\ calls[c].tasks[i].st = "start"
    /\ LET s == StartAttempt(calls[c].tasks[i], limiter, config, now)
       IN  /\ calls' = SetTask(c, i, s.task)
           /\ limiter' = s.limiter
    /\ UNCHANGED <<config, sources, health, metrics, batch, now>>
    /\ IdleOthers

\* asyncio.sleep(wait_time) of acquire is over
AcquireWake(c, i) ==
    /\ calls[c].pc = "gather"
    /\ calls[c].tasks[i].st = "acq_sleep"
    /\ 8 * now >= calls[c].tasks[i].wake
    /\ LET s == AcquireSemaphore(calls[c].tasks[i], limiter, now)
       IN  /\ calls' = SetTask(c, i, s.task)
           /\ limiter' = s.limiter
    /\ UNCHANGED <<config, sources, health, metrics, batch, now>>
    /\ IdleOthers

\* a permit of the semaphore became free for a waiting acquire
AcquireGranted(c, i) ==
    /\ calls[c].pc = "gather"
    /\ calls[c].tasks[i].st = "acq_sem"
    /\ limiter._semaphore > 0
    /\ LET s == AcquirePermit(calls[c].tasks[i], limiter, now)
       IN  /\ calls' = SetTask(c, i, s.task)
           /\ limiter' = s.limiter
    /\ UNCHANGED <<config, sources, health, metrics, batch, now>>
    /\ IdleOthers

\* source.fetch(email) of task i ends with outcome o
FetchDone(c, i, o) ==
    /\ calls[c].pc = "gather"
    /\ calls[c].tasks[i].st = "fetch"
    /\ LET name == calls[c].tasks[i].source
           s == AfterFetch(calls[c].tasks[i], limiter, config, o, now)
       IN  /\ health' = [health EXCEPT ![name] = HealthAfter(@, o, now)]
           /\ calls' = SetTask(c, i, s.task)
           /\ limiter' = s.limiter
    /\ UNCHANGED <<config, sources, metrics, batch, now>>
    /\ IdleOthers

\* asyncio.sleep(delay) before the next attempt is over
RetryWake(c, i) ==
    /\ calls[c].pc = "gather"
    /\ calls[c].tasks[i].st = "retry_sleep"
    /\ LET s == StartAttempt([calls[c].tasks[i] EXCEPT !.attempt = @ + 1],
                             limiter, config, now)
       IN  /\ calls' = SetTask(c, i, s.task)
           /\ limiter' = s.limiter
    /\ UNCHANGED <<config, sources, health, metrics, batch, now>>
    /\ IdleOthers

\* asyncio.wait_for(..., timeout=config.timeout) expires: the coroutine is
\* cancelled where it is suspended (CancelledError is no Exception, so the
\* except clause of the retry loop does not run) and TimeoutError is raised
Timeout(c, i) ==
    /\ calls[c].pc = "gather"
    /\ Suspended(calls[c].tasks[i])
    /\ calls' = SetTask(c, i, TaskRaise(calls[c].tasks[i], "TimeoutError"))
    /\ UNCHANGED <<config, sources, health, metrics, limiter, batch, now>>
    /\ IdleOthers

\* every awaitable handed to asyncio.gather is done
GatherReady(c) ==
    /\ calls[c].pc = "gather"
    /\ \A i \in 1..Len(calls[c].tasks) : calls[c].tasks[i].st = "done"

\* asyncio.gather returns and the rest of check_email runs
Gather(c) ==
    /\ GatherReady(c)
    /\ LET valid_results == ValidResults(calls[c].tasks)
           r == correlate(valid_results, calls[c].normalized)
       IN  /\ calls' = [calls EXCEPT ![c] = [@ EXCEPT !.pc = "returned",
                                                     !.valid_results = valid_results,
                                                     !.result = r]]
           /\ metrics' = record_query(metrics, r)
           \* check_with_semaphore returns the result and leaves "async with"
           /\ batch' = IF batch.pc = "running"
                       THEN [batch EXCEPT !.elems[c] = "done", !.results[c] = r,
                                          !.semaphore = @ + 1]
                       ELSE batch
    /\ UNCHANGED <<config, sources, health, limiter, now>>
    /\ IdleOthers

\* how far the clock runs
MaxTime == 2

\* a second passes
Tick ==
    /\ now < MaxTime
    /\ now' = now + 1
    /\ UNCHANGED <<config, sources, health, metrics, limiter, calls, batch>>
    /\ IdleOthers

(***************************************************************************)
(* Specification SpecAgent: one check_email call on a fresh agent with     *)
(* enable_rate_limiting=False, the default.  No step of such a check waits *)
(* for the clock, and a check lasts at most config.timeout = 10 s, less    *)
(* than the 60 s of rate_limit_reset: the clock stands still.              *)
(* Specification SpecLimited: the same with enable_rate_limiting=True and  *)
(* the clock running.                                                      *)
(***************************************************************************)
AgentConfig(max_concurrent_sources, max_retries_per_source, enable_rate_limiting) ==
    [max_concurrent_sources |-> max_concurrent_sources,
     max_retries_per_source |-> max_retries_per_source,
     enable_correlation |-> TRUE,
     enable_rate_limiting |-> enable_rate_limiting]

\* the most sources an agent of the specifications holds
MaxSources == 2

\* the largest max_retries_per_source configured
MaxRetries == 1

\* agent.sources: built-in sources by priority, or with a caller's own source
SourceLists ==
    {SubSeq(SourceNames, 1, n) : n \in 0..MaxSources}
    \cup {SubSeq(SourceNames, 1, n) \o <<"Custom">> : n \in 0..(MaxSources - 1)}

BatchOff == [pc |-> "off", emails |-> <<>>, semaphore |-> 0, elems |-> <<>>,
             results |-> <<>>]

\* BreachIntelligenceAgent(cfg) with the sources srcs, and nCalls callers
NewAgent(cfg, srcs, nCalls) ==
    /\ config = cfg
    /\ sources = srcs
    /\ health = [n \in Range(srcs) |-> NewSourceHealth]
    /\ metrics = NewAgentMetrics
    /\ limiter = NewRateLimiter(cfg.max_concurrent_sources)
    /\ calls = [c \in 1..nCalls |-> NewCall]
    /\ now = 0

InitAgent ==
    /\ InitIdleCorr
    /\ InitIdlePwd
    /\ \E mc \in {1, 6}, mr \in 0..MaxRetries, srcs \in SourceLists :
           NewAgent(AgentConfig(mc, mr, FALSE), srcs, 1)
    /\ batch = BatchOff

NextAgent ==
    \/ \E c \in DOMAIN calls, email \in Emails : CheckEmail(c, email)
    \/ \E c \in DOMAIN calls : \E i \in DOMAIN calls[c].tasks : TaskBegin(c, i)
    \/ \E c \in DOMAIN calls : \E i \in DOMAIN calls[c].tasks :
           \E o \in FetchOutcomes(calls[c].tasks[i].source) : FetchDone(c, i, o)
    \/ \E c \in DOMAIN calls : \E i \in DOMAIN calls[c].tasks : RetryWake(c, i)
    \/ \E c \in DOMAIN calls : \E i \in DOMAIN calls[c].tasks : Timeout(c, i)
    \/ \E c \in DOMAIN calls : Gather(c)

SpecAgent == InitAgent /\ [][NextAgent]_vars

InitLimited ==
    /\ InitIdleCorr
    /\ InitIdlePwd
    /\ \E mc \in {1, 6}, mr \in 0..MaxRetries, srcs \in SourceLists :
           NewAgent(AgentConfig(mc, mr, TRUE), srcs, 1)
    /\ batch = BatchOff

NextLimited ==
    \/ NextAgent
    \/ \E c \in DOMAIN calls : \E i \in DOMAIN calls[c].tasks : AcquireWake(c, i)
    \/ \E c \in DOMAIN calls : \E i \in DOMAIN calls[c].tasks : AcquireGranted(c, i)
    \/ Tick

SpecLimited == InitLimited /\ [][NextLimited]_vars

(***************************************************************************)
(* agent/orchestrator.py : check_emails_batch.  Element i of the batch is  *)
(* the coroutine check_with_semaphore(emails[i]); its check_email is call  *)
(* i.  An element is "waiting" for the semaphore, "running" or "done".     *)
(***************************************************************************)
\* the CorrelatedResult that replaces a check_email that raised
BatchFailure(email) ==
    [email |-> email, breached |-> FALSE, breach_count |-> 0, breaches |-> <<>>,
     sources_queried |-> <<>>, sources_succeeded |-> <<>>,
     sources_failed |-> <<"All sources failed">>,
     average_confidence |-> <<0, 1>>, risk_score |-> 0]

\* a caller awaits agent.check_emails_batch(emails, max_concurrent)
BatchCall(emails, max_concurrent) ==
    /\ batch.pc = "idle"
    /\ Len(emails) <= Len(calls)
    /\ batch' = [pc |-> "running", emails |-> emails, semaphore |-> max_concurrent,
                 elems |-> [i \in 1..Len(emails) |-> "waiting"],
                 results |-> [i \in 1..Len(emails) |-> NotRun]]
    /\ UNCHANGED <<config, sources, health, metrics, limiter, calls, now>>
    /\ IdleOthers

\* element i gets the semaphore and runs check_email up to its first await;
\* an exception on the way is caught and replaced, and the semaphore released
BatchEnter(i) ==
    /\ batch.pc = "running"
    /\ batch.elems[i] = "waiting"
    /\ batch.semaphore > 0
    /\ LET call == BeginCheckEmail(calls[i], batch.emails[i], sources)
       IN  /\ calls' = [calls EXCEPT ![i] = call]
           /\ batch' = IF call.pc = "raised"
                       THEN [batch EXCEPT !.elems[i] = "done",
                                          !.results[i] = BatchFailure(batch.emails[i])]
                       ELSE [batch EXCEPT !.elems[i] = "running",
                                          !.semaphore = @ - 1]
    /\ UNCHANGED <<config, sources, health, metrics, limiter, now>>
    /\ IdleOthers

\* asyncio.gather over the elements returns the list of results
BatchReturn ==
    /\ batch.pc = "running"
    /\ \A i \in 1..Len(batch.elems) : batch.elems[i] = "done"
    /\ batch' = [batch EXCEPT !.pc = "returned"]
    /\ UNCHANGED <<config, sources, health, metrics, limiter, calls, now>>
    /\ IdleOthers

(***************************************************************************)
(* Specification SpecBatch: one check_emails_batch call on a fresh agent   *)
(* with the default configuration apart from the retries; the clock stands *)
(* still as in SpecAgent                                                   *)
(***************************************************************************)
\* the longest list of addresses handed to check_emails_batch
MaxBatch == 2

EmailLists == UNION {[1..n -> Emails] : n \in 0..MaxBatch}

InitBatch ==
    /\ InitIdleCorr
    /\ InitIdlePwd
    /\ \E srcs \in {<<>>, <<"LeakCheck">>} :
           NewAgent(AgentConfig(6, 0, FALSE), srcs, MaxBatch)
    /\ batch = [BatchOff EXCEPT !.pc = "idle"]

NextBatch ==
    \/ \E emails \in EmailLists, max_concurrent \in {1, 3} :
           BatchCall(emails, max_concurrent)
    \/ \E i \in DOMAIN batch.elems : BatchEnter(i)
    \/ BatchReturn
    \/ \E c \in DOMAIN calls : \E i \in DOMAIN calls[c].tasks : TaskBegin(c, i)
    \/ \E c \in DOMAIN calls : \E i \in DOMAIN calls[c].tasks :
           \E o \in FetchOutcomes(calls[c].tasks[i].source) : FetchDone(c, i, o)
    \/ \E c \in DOMAIN calls : \E i \in DOMAIN calls[c].tasks : Timeout(c, i)
    \/ \E c \in DOMAIN calls : Gather(c)

SpecBatch == InitBatch /\ [][NextBatch]_vars

(***************************************************************************)
(* Claims on check_email (SpecAgent)                                       *)
(***************************************************************************)
\* the outcome of one source of a finished check, read off its task: it
\* failed when wait_for raised, or when the result it ended with has an error
TaskFailed(task) ==
    \/ task.done_kind = "exception"
    \/ task.done_kind = "result" /\ task.result.error # None

TaskSucceeded(task) == task.done_kind = "result" /\ task.result.error = None

TaskNames(tasks) == [i \in 1..Len(tasks) |-> tasks[i].source]

IsFailedTask(task) == TaskFailed(task)

IsSucceededTask(task) == TaskSucceeded(task)

FailedNames(tasks) == TaskNames(SelectSeq(tasks, IsFailedTask))

SucceededNames(tasks) == TaskNames(SelectSeq(tasks, IsSucceededTask))

\* C1: a check_email call with a well-formed email whose queried sources all
\* ended in failure never returns a CorrelatedResult: it raises NetworkError.
C1_AllFailedRaisesNetworkError ==
    \A c \in DOMAIN calls :
        (/\ calls[c].pc \in {"returned", "raised"}
         /\ validate_email(calls[c].email) # ""
         /\ \A i \in 1..Len(calls[c].tasks) : TaskFailed(calls[c].tasks[i]))
        => /\ calls[c].pc = "raised"
           /\ calls[c].exc_type = "NetworkError"

\* C2: a finished check_email call in which at least one source succeeded has
\* returned a CorrelatedResult, not raised; sources_queried lists the fanned-out
\* sources in order, sources_failed exactly those whose outcome was a failure,
\* sources_succeeded exactly the others, and the two share no name.
C2_PartialSuccessPartition ==
    \A c \in DOMAIN calls :
        LET call == calls[c]
        IN  (/\ call.pc \in {"returned", "raised"}
             /\ \E i \in 1..Len(call.tasks) : TaskSucceeded(call.tasks[i]))
            => /\ call.pc = "returned"
               /\ call.result.sources_queried = TaskNames(call.tasks)
               /\ call.result.sources_failed = FailedNames(call.tasks)
               /\ call.result.sources_succeeded = SucceededNames(call.tasks)
               /\ Range(call.result.sources_failed)
                      \cap Range(call.result.sources_succeeded) = {}
               /\ Range(call.result.sources_failed)
                      \cup Range(call.result.sources_succeeded)
                      = Range(call.result.sources_queried)

\* a check returned with one source failed and the other succeeded with no breach
C2_Witness ==
    \E c \in DOMAIN calls :
        /\ calls[c].pc = "returned"
        /\ Len(calls[c].tasks) = 2
        /\ TaskFailed(calls[c].tasks[1])
        /\ TaskSucceeded(calls[c].tasks[2])
        /\ calls[c].tasks[2].result.breaches = <<>>
        /\ calls[c].result.sources_failed = <<calls[c].tasks[1].source>>
        /\ ~calls[c].result.breached

\* the addresses of Emails that are no well-formed email address
MalformedEmails == {"not-an-email", "@"}

\* C4: the step in which check_email is called with a malformed email ends the
\* call with ValidationError, creates no task (no fetch is invoked, no limiter
\* slot acquired) and leaves every SourceHealth, the AgentMetrics and the
\* rate limiter unchanged; no fetch is in flight for such a call afterwards.
C4_MalformedEmailRaisesFirst ==
    [][\A c \in DOMAIN calls :
          (calls[c].pc = "idle" /\ calls'[c].pc # "idle"
               /\ calls'[c].email \in MalformedEmails)
          => /\ calls'[c].pc = "raised"
             /\ calls'[c].exc_type = "ValidationError"
             /\ calls'[c].tasks = <<>>
             /\ UNCHANGED <<health, metrics, limiter>>]_vars

\* check_email("not-an-email") has raised ValidationError on an agent with two
\* sources, whose health and metrics are as constructed
C4_Witness ==
    \E c \in DOMAIN calls :
        /\ calls[c].pc = "raised"
        /\ calls[c].email = "not-an-email"
        /\ calls[c].exc_type = "ValidationError"
        /\ Len(sources) = 2
        /\ metrics = NewAgentMetrics
        /\ \A n \in DOMAIN health : health[n] = NewSourceHealth

\* C5: the list handed to correlate holds one SourceResult per fanned-out
\* source, at the position of that source, whatever the order of completion:
\* entry i carries the name of source i and is the result task i ended with,
\* or, when task i raised (wait_for timed out), a SourceResult with an error;
\* a call raises only ValidationError or NetworkError, before any task exists.
C5_OneResultPerSourceInOrder ==
    \A c \in DOMAIN calls :
        LET call == calls[c]
        IN  /\ call.pc = "returned" =>
                /\ Len(call.valid_results) = Len(sources)
                /\ Len(call.tasks) = Len(sources)
                /\ \A i \in 1..Len(sources) :
                       /\ call.valid_results[i].source_name = sources[i]
                       /\ call.tasks[i].source = sources[i]
                       /\ call.tasks[i].done_kind = "result" =>
                              call.valid_results[i] = call.tasks[i].result
                       /\ call.tasks[i].done_kind = "exception" =>
                              /\ call.valid_results[i].error # None
                              /\ ~call.valid_results[i].breached
                       /\ call.tasks[i].fetched # NotRun /\ call.tasks[i].done_kind = "result"
                              /\ call.tasks[i].fetched.error = None =>
                              call.valid_results[i] = call.tasks[i].fetched
                /\ call.result = correlate(call.valid_results, call.normalized)
            /\ call.pc = "raised" =>
                /\ call.exc_type \in {"ValidationError", "NetworkError"}
                /\ call.tasks = <<>>

\* a check returned whose second source finished first and whose first source
\* timed out: the timeout is entry 1 with an error, the answer entry 2
C5_Witness ==
    \E c \in DOMAIN calls :
        /\ calls[c].pc = "returned"
        /\ calls[c].out_of_order
        /\ calls[c].tasks[1].done_kind = "exception"
        /\ calls[c].tasks[2].done_kind = "result"
        /\ calls[c].valid_results[2].breached
        /\ calls[c].valid_results[1].error = <<>>

(***************************************************************************)
(* Specification SpecAgentFair: SpecAgent with the scheduling of asyncio:  *)
(* a created task is run, the timer of wait_for fires, gather returns once *)
(* every task is done.  Nothing makes a remote source answer.              *)
(***************************************************************************)
AnyTaskBegin == \E c \in DOMAIN calls : \E i \in DOMAIN calls[c].tasks : TaskBegin(c, i)

AnyTimeout == \E c \in DOMAIN calls : \E i \in DOMAIN calls[c].tasks : Timeout(c, i)

AnyGather == \E c \in DOMAIN calls : Gather(c)

\* WF_vars(AnyGather), with ENABLED <<AnyGather>>_vars written out: Gather(c)
\* is enabled exactly when GatherReady(c) holds, and it changes calls[c].pc
GatherFair ==
    \/ []<>(~\E c \in DOMAIN calls : GatherReady(c))
    \/ []<><<AnyGather>>_vars

\* a fresh agent with the default max_concurrent_sources
InitAgentDefault ==
    /\ InitAgent
    /\ config.max_concurrent_sources = 6

SpecAgentFair ==
    /\ InitAgentDefault
    /\ [][NextAgent]_vars
    /\ WF_vars(AnyTaskBegin)
    /\ WF_vars(AnyTimeout)
    /\ GatherFair

\* in a returned check a task that timed out is reported as failed, with an
\* error in its entry, and a task whose fetch answered with a success has that
\* very answer as its entry and is reported as succeeded
C6_TimedOutAloneFails ==
    \A c \in DOMAIN calls :
        calls[c].pc = "returned" =>
            \A i \in DOMAIN calls[c].tasks :
                LET task == calls[c].tasks[i]
                    r == calls[c].result
                IN  /\ task.exc_type = "TimeoutError" =>
                        /\ InSeq(task.source, r.sources_failed)
                        /\ ~InSeq(task.source, r.sources_succeeded)
                        /\ calls[c].valid_results[i].error # None
                    /\ (task.done_kind = "result" /\ task.fetched # NotRun
                            /\ task.fetched.error = None) =>
                        /\ calls[c].valid_results[i] = task.fetched
                        /\ InSeq(task.source, r.sources_succeeded)
                        /\ ~InSeq(task.source, r.sources_failed)
                        /\ task.fetched.breaches # <<>> => r.breached

\* the step in which one task times out leaves its sibling tasks as they are
C6_SiblingsKeepRunning ==
    \A c \in DOMAIN calls :
        \A i \in DOMAIN calls[c].tasks, j \in DOMAIN calls[c].tasks :
            (/\ i # j
             /\ calls[c].tasks[i].st # "done"
             /\ calls'[c].tasks[i].exc_type = "TimeoutError")
            => calls'[c].tasks[j] = calls[c].tasks[j]

InFlight ==
    {<<c, i>> \in (DOMAIN calls) \X (1..(MaxSources + 1)) :
        i \in DOMAIN calls[c].tasks /\ calls[c].tasks[i].st = "fetch"}

\* C8: at every moment the number of source fetches in flight is at most
\* AgentConfig.max_concurrent_sources, however many sources are configured.
C8_InFlightBounded == Cardinality(InFlight) <= config.max_concurrent_sources

(***************************************************************************)
(* Claims on check_emails_batch (SpecBatch)                                *)
(***************************************************************************)
\* the failure marker of a replaced element tells a validation failure: it is
\* not the marker that reports the sources as having failed
ValidationMarker(r) == r.sources_failed # <<"All sources failed">>

EmptyResult(r) ==
    /\ ~r.breached
    /\ r.breach_count = 0
    /\ r.breaches = <<>>
    /\ r.sources_queried = <<>>
    /\ r.sources_succeeded = <<>>

\* C7: the list check_emails_batch returns has the length and the order of its
\* input; an element whose check_email raised is an empty CorrelatedResult for
\* that address with a failure marker, which for a malformed address is a
\* validation failure marker; every other element is the result of its own
\* check_email call.
C7_BatchKeepsOrderAndMarksFailures ==
    batch.pc = "returned" =>
        /\ Len(batch.results) = Len(batch.emails)
        /\ \A i \in 1..Len(batch.emails) :
               IF calls[i].pc = "raised"
               THEN /\ batch.results[i].email = batch.emails[i]
                    /\ EmptyResult(batch.results[i])
                    /\ batch.results[i].sources_failed # <<>>
                    /\ batch.emails[i] \in MalformedEmails =>
                           ValidationMarker(batch.results[i])
               ELSE /\ calls[i].pc = "returned"
                    /\ calls[i].email = batch.emails[i]
                    /\ batch.results[i] = calls[i].result

(***************************************************************************)
(* Specification SpecRisk: _calculate_risk_score applied to breach lists   *)
(* that grow by one correlated breach at a time                            *)
(***************************************************************************)
\* how many correlated breaches a list holds at most (the cap of the count
\* term, min(len(breaches) * 5, 40), binds from nine breaches on)
MaxBreaches == 9

\* the name of the k-th correlated breach of a list
BreachName(k) == <<"B", "r", "e", "a", "c", "h", " ", UpperLetters[k]>>

\* the correlated breaches the loop of correlate builds for one normalized
\* name: inserted from the first source that reports it, merged with the next
RiskKinds == {"recent_sensitive_agreed", "old_plain", "undated_sensitive"}

RiskBreach(kind, k) ==
    CASE kind = "recent_sensitive_agreed" ->
             LET raw == RawBreach({"name", "date", "data_classes"}, BreachName(k),
                                  D_2024, <<T_Email, T_Passwords, T_Health>>)
             IN  merge_from(NewCorrelatedBreach(raw, SourceNames[1]), raw, SourceNames[2])
      [] kind = "old_plain" ->
             NewCorrelatedBreach(RawBreach({"name", "date", "data_classes"}, BreachName(k),
                                           D_2023, <<T_Email>>), SourceNames[1])
      [] kind = "undated_sensitive" ->
             NewCorrelatedBreach(RawBreach({"name", "data_classes"}, BreachName(k),
                                           None, <<T_Credit_Card>>), SourceNames[2])

InitRisk ==
    /\ results = <<>>
    /\ correlated = NotRun
    /\ riskBreaches = <<>>
    /\ riskScore = _calculate_risk_score(riskBreaches)
    /\ response = NotRun
    /\ report = NotRun
    /\ norm = NotRun
    /\ InitIdlePwd
    /\ InitIdleAgent

\* one more breach is correlated; the list is sorted as correlate sorts it and scored
RiskAdd(kind) ==
    /\ Len(riskBreaches) < MaxBreaches
    /\ riskBreaches' = InsertDesc(riskBreaches, RiskBreach(kind, Len(riskBreaches) + 1))
    /\ riskScore' = _calculate_risk_score(riskBreaches')
    /\ UNCHANGED <<results, correlated, response, report, norm, pwVars, agentVars>>

NextRisk == \E kind \in RiskKinds : RiskAdd(kind)

SpecRisk == InitRisk /\ [][NextRisk]_vars

(***************************************************************************)
(* Claims about the risk score (SpecRisk, SpecCorr)                        *)
(***************************************************************************)
\* the weighted sum of the four signals of a breach list, for a given set of
\* sensitive class names (lower case)
HasClassIn(b, names) ==
    \E i \in 1..Len(b.data_classes) : Lower(b.data_classes[i]) \in names

WithinTwoYears(b) == b.year # NoYear /\ CurrentYear - b.year <= 2

WeightedSignals(breaches, names) ==
    LET n == Len(breaches)
        recent == Cardinality({i \in 1..n : WithinTwoYears(breaches[i])})
        sensitive == Cardinality({i \in 1..n : HasClassIn(breaches[i], names)})
        high == Cardinality({i \in 1..n : breaches[i].confidence * 2 >= ConfidenceScale})
    IN  Min(100, Min(5 * n, 40) + 15 * recent + 10 * sensitive + 5 * high)

\* C11 (as stated): risk_score = min(100, min(5 x count, 40) + 15 x recent
\* + 10 x breaches with a class among password, financial, ssn, health
\* + 5 x breaches with confidence >= 0.5)
C11_Original ==
    riskScore = WeightedSignals(riskBreaches, {T_password, T_financial, T_ssn, T_health})

\* C11 (amended): the same sum, a breach counting as sensitive when one of its
\* data classes is, ignoring case, one of password, passwords, financial,
\* credit card, ssn, health
C11_RiskScoreFormula ==
    riskScore = WeightedSignals(riskBreaches,
                    {T_password, T_passwords, T_financial, T_credit_card, T_ssn, T_health})

\* nine breaches or more, so that the count term is capped at 40, one of them
\* sensitive by its class "Credit Card" only, and the total still below 100
C11_Witness ==
    /\ Len(riskBreaches) > 8
    /\ riskScore < 100
    /\ \E i \in 1..Len(riskBreaches) : riskBreaches[i].data_classes = <<T_Credit_Card>>
    /\ \E i \in 1..Len(riskBreaches) : WithinTwoYears(riskBreaches[i])

\* C12: risk_score always lies in [0, 100], and adding a breach to the list,
\* the other breaches unchanged, never lowers it
C12_BoundedAndMonotone ==
    /\ [](riskScore \in 0..100)
    /\ [][(/\ Len(riskBreaches') = Len(riskBreaches) + 1
           /\ \A i \in 1..Len(riskBreaches) :
                  \E j \in 1..Len(riskBreaches') : riskBreaches'[j] = riskBreaches[i])
          => riskScore' >= riskScore]_vars

\* a list whose signals add up to more than 100, with several breaches in it
C12_Witness ==
    /\ riskScore = 100
    /\ Len(riskBreaches) > 4
    /\ 35 * Cardinality({i \in 1..Len(riskBreaches) : WithinTwoYears(riskBreaches[i])}) > 100

\* every source of the check answered successfully and reported no breach
AllSucceededEmpty(rs) ==
    /\ Len(rs) > 0
    /\ \A i \in 1..Len(rs) : success(rs[i]) /\ rs[i].breaches = <<>>

\* C13: when every source answers successfully with zero breaches the result
\* has breached = false, breach_count = 0 and risk_score = 0; in every result
\* breached is true iff breach_count > 0
C13_NoBreachesNoRisk ==
    correlated # NotRun =>
        /\ correlated.breached <=> correlated.breach_count > 0
        /\ AllSucceededEmpty(results) =>
               /\ correlated.breached = FALSE
               /\ correlated.breach_count = 0
               /\ correlated.risk_score = 0

\* all three sources answered successfully, none reported a breach
C13_Witness ==
    /\ correlated # NotRun
    /\ Len(results) = 3
    /\ AllSucceededEmpty(results)
    /\ correlated.sources_succeeded = SourceNames

(***************************************************************************)
(* Specification SpecHealth: one SourceHealth driven by record_success,    *)
(* record_failure and is_available while the clock advances                *)
(***************************************************************************)
\* how many requests the health records at most
MaxHealthRequests == 6
\* how many half minutes the clock advances at most
MaxHealthTicks == 4

\* the retry_after arguments of record_failure: None (0) or half a minute
RetryAfters == {0, 30}

TheSource == SourceNames[1]

InitHealth ==
    /\ InitIdleCorr
    /\ InitIdlePwd
    /\ config = NotRun
    /\ sources = <<TheSource>>
    /\ health = [n \in {TheSource} |-> NewSourceHealth]
    /\ metrics = NotRun
    /\ limiter = NotRun
    /\ calls = <<>>
    /\ batch = BatchOff
    /\ now = 0

HealthUnchanged == UNCHANGED <<corrVars, pwVars, config, sources, metrics, limiter, calls, batch>>

\* source.health.record_success(response_time_ms)
HealthSuccess ==
    /\ health[TheSource].total_requests < MaxHealthRequests
    /\ health' = [health EXCEPT ![TheSource] = record_success(@, now)]
    /\ UNCHANGED now
    /\ HealthUnchanged

\* source.health.record_failure(is_rate_limit, retry_after)
HealthFailure(is_rate_limit, retry_after) ==
    /\ health[TheSource].total_requests < MaxHealthRequests
    /\ health' = [health EXCEPT ![TheSource] = record_failure(@, is_rate_limit, retry_after, now)]
    /\ UNCHANGED now
    /\ HealthUnchanged

\* source.health.is_available()
HealthIsAvailable ==
    /\ health' = [health EXCEPT ![TheSource] = is_available(@, now).health]
    /\ UNCHANGED now
    /\ HealthUnchanged

\* half a minute passes
HealthTick ==
    /\ now < 30 * MaxHealthTicks
    /\ now' = now + 30
    /\ UNCHANGED health
    /\ HealthUnchanged

\* BreachIntelligenceAgent.get_source_status: the mapping it returns and the
\* health of the sources it leaves behind.  "available" is evaluated before
\* "health", so the snapshot shows the status is_available has left.
get_source_status(srcs, hs, t) ==
    LET asked == {srcs[k] : k \in DOMAIN srcs}
    IN  [status |-> [n \in asked |->
                        [available |-> is_available(hs[n], t).available,
                         health |-> [status |-> is_available(hs[n], t).health.status,
                                     consecutive_failures |-> hs[n].consecutive_failures]]],
         health |-> [n \in DOMAIN hs |->
                        IF n \in asked THEN is_available(hs[n], t).health ELSE hs[n]]]

\* agent.get_source_status()
GetSourceStatus ==
    /\ health' = get_source_status(sources, health, now).health
    /\ UNCHANGED now
    /\ HealthUnchanged

NextHealth ==
    \/ HealthSuccess
    \/ \E rl \in BOOLEAN, ra \in RetryAfters : HealthFailure(rl, ra)
    \/ HealthIsAvailable
    \/ GetSourceStatus
    \/ HealthTick

SpecHealth == InitHealth /\ [][NextHealth]_vars

(***************************************************************************)
(* Claims about SourceHealth (SpecHealth)                                  *)
(***************************************************************************)
\* the status the counters stand for at time t
StatusOfCounters(h, t) ==
    IF h.rate_limit_reset # NoTime /\ t < h.rate_limit_reset THEN "rate_limited"
    ELSE IF h.consecutive_failures >= 5 THEN "unavailable"
    ELSE IF h.consecutive_failures >= 2
            \/ (h.total_requests > 0 /\ 10 * h.successful_requests < 7 * h.total_requests)
         THEN "degraded"
    ELSE "healthy"

\* C14: after every call of record_success, record_failure or is_available
\* that leaves a status other than UNKNOWN, the status is the stated function
\* of the counters; in particular it is never HEALTHY with two or more
\* consecutive failures, and with five or more outside a rate-limit window it
\* is UNAVAILABLE
C14_StatusIsFunctionOfCounters ==
    [][(now' = now /\ health'[TheSource].status # "unknown") =>
           LET h == health'[TheSource]
           IN  /\ h.status = StatusOfCounters(h, now')
               /\ ~(h.status = "healthy" /\ h.consecutive_failures >= 2)
               /\ (h.consecutive_failures >= 5
                   /\ ~(h.rate_limit_reset # NoTime /\ now' < h.rate_limit_reset))
                  => h.status = "unavailable"]_vars

\* the part of C14 that is_available breaks most visibly: HEALTHY with two or
\* more consecutive failures
C14_HealthyDespiteFailures ==
    LET h == health[TheSource]
    IN  h.status = "healthy" /\ h.consecutive_failures >= 2

(***************************************************************************)
(* Claims about the fan-out and the availability of sources (SpecBatch)    *)
(***************************************************************************)
\* call c passes in this step from its first statement to asyncio.gather
FansOut(c) == calls[c].pc # "gather" /\ calls'[c].pc = "gather"

\* C15: check_email fans out exactly to the sources whose is_available() is
\* true at fan-out time: an UNAVAILABLE source, or a RATE_LIMITED one before its
\* reset time, gets no task (and so no fetch) in that check, and a DEGRADED
\* source gets one
C15_FanOutOnlyToAvailable ==
    [][\A c \in DOMAIN calls :
           FansOut(c) =>
               /\ \A i \in DOMAIN calls'[c].tasks :
                      is_available(health[calls'[c].tasks[i].source], now).available
               /\ \A n \in Range(sources) :
                      is_available(health[n], now).available
                          => \E i \in DOMAIN calls'[c].tasks :
                                 calls'[c].tasks[i].source = n]_vars

\* fetch of a source has returned within a check that began while the source
\* was RATE_LIMITED and its reset time had not come
C15_FetchedWhileRateLimited ==
    \E c \in DOMAIN calls :
        /\ calls[c].pc = "returned"
        /\ \E i \in DOMAIN calls[c].tasks :
               /\ calls[c].tasks[i].fetched # NotRun
               /\ health[calls[c].tasks[i].source].status = "rate_limited"
               /\ now < health[calls[c].tasks[i].source].rate_limit_reset

(***************************************************************************)
(* Specification SpecBackoff: the AdaptiveRateLimiter of an agent with     *)
(* max_concurrent_sources = 2, used for one source: acquire, then release  *)
(* with the outcome of the request, while the clock advances by minutes    *)
(***************************************************************************)
\* how many minutes the clock advances at most
MaxBackoffTicks == 4

\* the retry_after hints handed to release: None (0), or 1, 30 or 120 seconds
RetryHints == {0, 1, 30, 120}

InitBackoff ==
    /\ InitIdleCorr
    /\ InitIdlePwd
    /\ config = NotRun
    /\ sources = <<TheSource>>
    /\ health = <<>>
    /\ metrics = NotRun
    /\ limiter = NewRateLimiter(2)
    /\ calls = <<>>
    /\ batch = BatchOff
    /\ now = 0

BackoffUnchanged == UNCHANGED <<corrVars, pwVars, config, sources, health, metrics, calls, batch>>

\* await rate_limiter.acquire(name) returns at a time when the source has
\* nothing left to wait for and a permit is free
BackoffAcquire ==
    /\ LET l == _get_or_create_state(limiter, TheSource, now)
       IN  /\ time_until_available(l._source_limits[TheSource], now) = 0
           /\ l._semaphore > 0
           /\ limiter' = acquire_locked(l, TheSource, now).limiter
    /\ UNCHANGED now
    /\ BackoffUnchanged

\* rate_limiter.release(name, success, rate_limited, retry_after) for a
\* request that was acquired
BackoffRelease(succeeded, rate_limited, retry_after) ==
    /\ limiter._concurrent_requests > 0
    /\ limiter' = release(limiter, TheSource, succeeded, rate_limited, retry_after, now)
    /\ UNCHANGED now
    /\ BackoffUnchanged

\* the same for a caller that has slept in acquire or waited for a permit: the
\* source may be backing off, or its window be full, when it gets the lock
BackoffAcquireAfterWait ==
    /\ HasState(limiter, TheSource)
    /\ time_until_available(limiter._source_limits[TheSource], now) > 0
    /\ limiter._semaphore > 0
    /\ limiter' = acquire_locked(limiter, TheSource, now).limiter
    /\ UNCHANGED now
    /\ BackoffUnchanged

\* a minute passes
BackoffTick ==
    /\ now < 60 * MaxBackoffTicks
    /\ now' = now + 60
    /\ UNCHANGED limiter
    /\ BackoffUnchanged

NextBackoff ==
    \/ BackoffAcquire
    \/ BackoffAcquireAfterWait
    \/ \E succeeded \in BOOLEAN : BackoffRelease(succeeded, FALSE, 0)
    \/ \E retry_after \in RetryHints : BackoffRelease(FALSE, TRUE, retry_after)
    \/ BackoffTick

SpecBackoff == InitBackoff /\ [][NextBackoff]_vars

(***************************************************************************)
(* Claims about the back-off of the rate limiter (SpecBackoff)             *)
(***************************************************************************)
\* current_backoff_seconds of the source, in eighths of a second (the
\* RateLimitState is created with 1.0 s by the first acquire)
BackoffOf(l) ==
    IF HasState(l, TheSource) THEN l._source_limits[TheSource].current_backoff_seconds
    ELSE NewRateLimitState(0).current_backoff_seconds

\* this step is release(name, rate_limited=True, retry_after=hint)
SignalStep(hint) ==
    /\ limiter._concurrent_requests > 0
    /\ limiter' = release(limiter, TheSource, FALSE, TRUE, hint, now)

\* this step is release(name, success=True)
SuccessStep ==
    /\ limiter._concurrent_requests > 0
    /\ limiter' = release(limiter, TheSource, TRUE, FALSE, 0, now)

\* the last record of the source was a rate-limit signal (record_success
\* clears backoff_until, record_rate_limit sets it)
LastWasSignal == HasState(limiter, TheSource)
                 /\ limiter._source_limits[TheSource].backoff_until # NoTime

\* C16: after each rate-limit signal (release with rate_limited=True, with or
\* without a retry_after hint) current_backoff_seconds is at least what it was
\* before the signal and at most max_backoff_seconds (60 s)
C16_SignalsRaiseBackoffToCap ==
    [][\A hint \in RetryHints :
           SignalStep(hint) => /\ BackoffOf(limiter') >= BackoffOf(limiter)
                               /\ BackoffOf(limiter') <= 480]_vars

\* the part of C16 that holds: signals without a hint, as long as no hint has
\* put the back-off above the maximum
C16_WithoutHint ==
    [][(SignalStep(0) /\ BackoffOf(limiter) <= 480)
           => /\ BackoffOf(limiter') >= BackoffOf(limiter)
              /\ BackoffOf(limiter') <= 480]_vars

\* C17 (as stated): a success recorded after one or more rate-limit signals
\* makes current_backoff_seconds strictly smaller than before the success,
\* and it is never below the floor of 1 s
C17_Original ==
    /\ [](BackoffOf(limiter) >= 8)
    /\ [][(SuccessStep /\ LastWasSignal) => BackoffOf(limiter') < BackoffOf(limiter)]_vars

\* C17 (amended): a success after rate-limit signals halves the back-off, so
\* it is strictly smaller unless it was at the floor of 1 s already (after a
\* retry_after hint of 1), where it stays; signals without a hint leave at
\* least 2 s; the back-off is never below 1 s
C17_SuccessLowersBackoffToFloor ==
    /\ [](BackoffOf(limiter) >= 8)
    /\ [][(SuccessStep /\ LastWasSignal) =>
              IF BackoffOf(limiter) > 8 THEN BackoffOf(limiter') < BackoffOf(limiter)
              ELSE BackoffOf(limiter') = 8]_vars
    /\ [][SignalStep(0) => BackoffOf(limiter') >= 16]_vars

\* a success has halved the 60 s the signals had reached
C17_Witness ==
    /\ HasState(limiter, TheSource)
    /\ limiter._source_limits[TheSource].current_backoff_seconds = 240
    /\ limiter._source_limits[TheSource].backoff_until = NoTime

(***************************************************************************)
(* Specification SpecLimitedBatch: one check_emails_batch call on a fresh  *)
(* agent with enable_rate_limiting=True, one retry and the source          *)
(* LeakCheck; the checks of the batch share the rate limiter               *)
(***************************************************************************)
InitLimitedBatch ==
    /\ InitIdleCorr
    /\ InitIdlePwd
    /\ \E mc \in {1, 6} : NewAgent(AgentConfig(mc, 1, TRUE), <<TheSource>>, MaxBatch)
    /\ batch = [BatchOff EXCEPT !.pc = "idle"]

NextLimitedBatch ==
    \/ NextBatch
    \/ \E c \in DOMAIN calls : \E i \in DOMAIN calls[c].tasks : RetryWake(c, i)
    \/ \E c \in DOMAIN calls : \E i \in DOMAIN calls[c].tasks : AcquireWake(c, i)
    \/ \E c \in DOMAIN calls : \E i \in DOMAIN calls[c].tasks : AcquireGranted(c, i)
    \/ Tick

SpecLimitedBatch == InitLimitedBatch /\ [][NextLimitedBatch]_vars

(***************************************************************************)
(* Claims about the retry loop (SpecLimitedBatch, SpecAgent)               *)
(***************************************************************************)
\* fetch of task i of call c ends in this step with outcome o
FetchEnds(c, i, o) ==
    /\ calls[c].tasks[i].st = "fetch"
    /\ calls'[c].tasks[i] = AfterFetch(calls[c].tasks[i], limiter, config, o, now).task

ValidationClass(o) == o.kind = "raise" /\ o.exc_type = "ValidationError"

FailedFetch(o) == o.kind = "raise" \/ o.result.error # None

\* task i of call c returns a failed SourceResult in this step
GivesUp(c, i) ==
    /\ calls[c].tasks[i].st # "done"
    /\ calls'[c].tasks[i].st = "done"
    /\ calls'[c].tasks[i].done_kind = "result"
    /\ calls'[c].tasks[i].result.error # None

\* C18: a validation-class error ends the attempts of the source in that
\* check; any other failure is followed by another fetch until the source
\* succeeds or max_retries_per_source + 1 fetches were made (once a fetch has
\* failed the loop gives up only then); attempts count the fetches, at most max_retries_per_source + 1
\* per source and check, and none follows a success
C18_RetryByErrorClass ==
    [][\A c \in DOMAIN calls : \A i \in DOMAIN calls[c].tasks :
           c \in DOMAIN calls' /\ i \in DOMAIN calls'[c].tasks =>
           LET task == calls[c].tasks[i]
               next == calls'[c].tasks[i]
               outcomes == FetchOutcomes(task.source)
           IN  /\ \A o \in outcomes :
                      (FetchEnds(c, i, o) /\ ValidationClass(o)) => next.st = "done"
               /\ \A o \in outcomes :
                      (FetchEnds(c, i, o) /\ FailedFetch(o) /\ ~ValidationClass(o)
                       /\ task.attempt < config.max_retries_per_source)
                          => next.st = "retry_sleep"
               /\ (GivesUp(c, i) /\ task.attempt > 0) =>
                      /\ task.st = "fetch"
                      /\ \/ task.attempt = config.max_retries_per_source
                         \/ \E o \in outcomes : FetchEnds(c, i, o) /\ ValidationClass(o)
               /\ (task.st = "retry_sleep" /\ next.st \notin {"retry_sleep", "done"})
                      => next.attempt = task.attempt + 1
               /\ (task.st # "fetch" /\ next.st = "fetch")
                      => /\ next.attempt <= config.max_retries_per_source
                         /\ task.st \in {"start", "retry_sleep", "acq_sleep", "acq_sem"}
                         /\ task.fetched = NotRun
               /\ task.st = "done" => next = task]_vars

\* a source gave up with "Rate limit exceeded" on its second attempt, after
\* one fetch
C18_DeniedBeforeSecondFetch ==
    \E c \in DOMAIN calls : \E i \in DOMAIN calls[c].tasks :
        /\ calls[c].tasks[i].done_kind = "result"
        /\ calls[c].tasks[i].result.error = E_RateLimitExceeded
        /\ health[calls[c].tasks[i].source].total_requests
               < Len(batch.emails) * (config.max_retries_per_source + 1)

(***************************************************************************)
(* agent/sources.py : fetch of the six source variants, from the HTTP      *)
(* exchange to the SourceResult and the health record                      *)
(***************************************************************************)
\* get_all_sources(), sorted by priority
AllSourceNames == SourceNames \o <<"XposedOrNot Analytics", "EmailRep", "DeXpose">>

\* str(response.status_code) of a three-digit status
StatusText(code) ==
    <<Digits[((code \div 100) % 10) + 1], Digits[((code \div 10) % 10) + 1],
      Digits[(code % 10) + 1]>>

E_ApiReturnedStatus == <<"A", "P", "I", " ", "r", "e", "t", "u", "r", "n", "e", "d", " ",
                         "s", "t", "a", "t", "u", "s", " ">>
E_JsonError == <<"E", "x", "p", "e", "c", "t", "i", "n", "g", " ", "v", "a", "l", "u", "e">>
E_ConnectFailed == <<"A", "l", "l", " ", "c", "o", "n", "n", "e", "c", "t", "i", "o", "n", " ",
                     "a", "t", "t", "e", "m", "p", "t", "s", " ", "f", "a", "i", "l", "e", "d">>

E_NoAttributeGet == <<"'", "l", "i", "s", "t", "'", " ", "o", "b", "j", "e", "c", "t", " ",
                       "h", "a", "s", " ", "n", "o", " ", "a", "t", "t", "r", "i", "b", "u",
                       "t", "e", " ", "'", "g", "e", "t", "'">>

\* what client.get does: an HTTP response (status; the body is JSON that names
\* the breaches, or no JSON at all), a time-out, or another httpx error.  shape
\* tells whether the JSON has the layout the variant reads ("expected") or is
\* valid JSON of another layout ("other": a list of strings, which makes every
\* variant call .get on a list or a str)
HttpResponse(status, json, breaches) ==
    [kind |-> "response", status |-> status, json |-> json, shape |-> "expected",
     breaches |-> breaches]

HttpStatuses == {200, 400, 404, 429, 500, 503}

HttpExchanges ==
    {HttpResponse(200, TRUE, bl) : bl \in AgentBreachLists}
    \cup {[HttpResponse(200, TRUE, <<>>) EXCEPT !.shape = "other"]}
    \cup {HttpResponse(st, FALSE, <<>>) : st \in HttpStatuses}
    \cup {[kind |-> "timeout", status |-> 0, json |-> FALSE, shape |-> "expected",
           breaches |-> <<>>],
          [kind |-> "error", status |-> 0, json |-> FALSE, shape |-> "expected",
           breaches |-> <<>>]}

\* the statuses that a variant answers with "not breached": 404, and for
\* DeXpose also 400
NotBreachedStatuses(name) == IF name = "DeXpose" THEN {404, 400} ELSE {404}

\* DataSource.fetch(email) of the variant name, given what the HTTP exchange was
fetch(name, http) ==
    LET failed(error, record) ==
            FetchOutcome("return", SourceResult(name, FALSE, <<>>, error), record, "", <<>>)
        empty == FetchOutcome("return", SourceResult(name, FALSE, <<>>, None), "success", "", <<>>)
    IN  IF http.kind = "timeout" THEN failed(E_TimedOut, "failure")
        ELSE IF http.kind = "error" THEN failed(E_ConnectFailed, "failure")
        ELSE IF http.status = 429 THEN failed(E_RateLimited, "rate_limit")
        ELSE IF http.status \in NotBreachedStatuses(name) THEN empty
        ELSE IF http.status = 200
        THEN IF ~http.json
             \* response.json() raises: DeXpose catches it at the call, the
             \* other variants in "except Exception as e" with error=str(e)
             THEN IF name = "DeXpose" THEN empty ELSE failed(E_JsonError, "failure")
             \* record_success has run when data.get or breach.get raises
             ELSE IF http.shape = "other" THEN failed(E_NoAttributeGet, "success_failure")
             ELSE FetchOutcome("return",
                               SourceResult(name, http.breaches # <<>>, http.breaches, None),
                               "success", "", <<>>)
        ELSE failed(E_ApiReturnedStatus \o StatusText(http.status), "failure")

(***************************************************************************)
(* Specification SpecFetch: one source variant of a fresh agent is fetched *)
(* a few times, each time with some HTTP exchange                          *)
(***************************************************************************)
\* how many times the source is fetched at most
MaxFetches == 2

InitFetch ==
    /\ results = <<>>
    /\ correlated = NotRun
    /\ riskBreaches = <<>>
    /\ riskScore = 0
    /\ response = NotRun
    /\ report = NotRun
    /\ norm = NotRun
    /\ InitIdlePwd
    /\ config = NotRun
    /\ \E name \in Range(AllSourceNames) :
           /\ sources = <<name>>
           /\ health = [n \in {name} |-> NewSourceHealth]
    /\ metrics = NotRun
    /\ limiter = NotRun
    /\ calls = <<>>
    /\ batch = BatchOff
    /\ now = 0

\* await source.fetch(email)
Fetch(http) ==
    /\ health[sources[1]].total_requests < MaxFetches
    /\ LET o == fetch(sources[1], http)
       IN  /\ response' = [http |-> http, outcome |-> o]
           /\ health' = [health EXCEPT ![sources[1]] = HealthAfter(@, o, now)]
    /\ UNCHANGED <<results, correlated, riskBreaches, riskScore, report, norm, pwVars,
                   config, sources, metrics, limiter, calls, batch, now>>

NextFetch == \E http \in HttpExchanges : Fetch(http)

SpecFetch == InitFetch /\ [][NextFetch]_vars

(***************************************************************************)
(* Claims about fetch (SpecFetch)                                          *)
(***************************************************************************)
\* what the claim asks of the result of a fetch that got the HTTP status st
StatusMapped(st, o, h) ==
    /\ st = 404 => /\ o.result.error = None
                   /\ o.result.breached = FALSE
                   /\ o.result.breaches = <<>>
    /\ st = 429 => /\ o.result.error # None
                   /\ h.status = "rate_limited"
                   /\ h.rate_limit_reset > now
    /\ st \notin {200, 404, 429} => /\ o.result.error # None
                                    /\ Contains(o.result.error, StatusText(st))

\* C19: for every source variant fetch does not raise, and maps 404 to a
\* successful result without breaches, 429 to a failure recorded in the health
\* as a rate limit, and every other status but 200 to a failed result whose
\* error carries the status code
C19_StatusMapping ==
    response # NotRun =>
        /\ response.outcome.kind # "raise"
        /\ response.http.kind = "response" =>
               StatusMapped(response.http.status, response.outcome, health[sources[1]])

\* the same for every exchange but HTTP 400 answered to DeXpose
C19_ExceptDeXpose400 ==
    (response # NotRun /\ ~(sources[1] = "DeXpose" /\ response.http.status = 400)) =>
        /\ response.outcome.kind # "raise"
        /\ response.http.kind = "response" =>
               StatusMapped(response.http.status, response.outcome, health[sources[1]])

(***************************************************************************)
(* Claims about the prefixes a password check transmits (SpecPwd)          *)
(***************************************************************************)
\* the range URL of the first 5 characters of the upper-case digest of text
OwnRangeUrl(text) == HIBP_PASSWORD_API \o SubSeq(Upper(hexdigest(text)), 1, 5)

\* C20: every request URL issued during PasswordChecker.check(p) is the range
\* URL of the first 5 characters of p's own digest, so that the traffic of a
\* check depends on that prefix only
C20_OnlyOwnPrefixTransmitted ==
    (pwApi # NotRun /\ pwApi.api = "PasswordChecker.check") =>
        \A k \in 1..Len(pwRequests) : pwRequests[k].url = OwnRangeUrl(pw)

\* the same for the three entry points that look up the password only
C20_DirectLookups ==
    (pwApi # NotRun /\ pwApi.api # "PasswordChecker.check") =>
        \A k \in 1..Len(pwRequests) : pwRequests[k].url = OwnRangeUrl(pw)

\* PasswordChecker.check("password") has returned after requests for the
\* prefixes of "password1" and "password!"
C20_VariationPrefixesSent ==
    /\ pwApi # NotRun
    /\ pwApi.pc = "done"
    /\ pwApi.api = "PasswordChecker.check"
    /\ pw = P_password
    /\ \E k \in 1..Len(pwRequests) : pwRequests[k].url = OwnRangeUrl(P_password \o <<"1">>)
    /\ \E k \in 1..Len(pwRequests) : pwRequests[k].url = OwnRangeUrl(P_password \o <<"!">>)

(***************************************************************************)
(* Claims about get_source_status (SpecHealth)                             *)
(***************************************************************************)
\* C21: get_source_status changes no state: the SourceHealth of every source
\* (status, rate_limit_reset, counters) and the rate limiter are the same
\* before and after the call
C21_GetSourceStatusChangesNothing ==
    [][(now' = now /\ health' = get_source_status(sources, health, now).health)
           => (health' = health /\ limiter' = limiter)]_vars

\* what the call changes is the status and the reset time of a RATE_LIMITED
\* source whose reset time has passed; the counters and the limiter stay
C21_OnlyExpiredRateLimit ==
    [][(now' = now /\ health' = get_source_status(sources, health, now).health)
           => /\ limiter' = limiter
              /\ \A n \in DOMAIN health :
                     \/ health'[n] = health[n]
                     \/ /\ health[n].status = "rate_limited"
                        /\ health[n].rate_limit_reset # NoTime
                        /\ now >= health[n].rate_limit_reset
                        /\ health'[n] = [health[n] EXCEPT !.status = "healthy",
                                                          !.rate_limit_reset = NoTime]]_vars

(***************************************************************************)
(* cli.py : do_email_check.  It builds an agent with the default sources,   *)
(* runs check_email_sync and prints the report; an exception of the check  *)
(* becomes an error banner.  Specification SpecCli: the check of SpecAgent *)
(* followed by the printing.                                                *)
(***************************************************************************)
\* the lines of the report that depend on the result; marks "[OK]" and "[--]"
\* head the sources that succeeded and failed
do_email_check(call) ==
    IF call.pc = "raised"
    THEN [banner |-> CASE call.exc_type = "ValidationError" -> "Validation Error"
                       [] call.exc_type = "NetworkError"    -> "Network Error"
                       [] OTHER                             -> "An error occurred",
          source_status |-> <<>>, responded |-> <<0, 0>>, verdict |-> "",
          note |-> ""]
    ELSE LET result == call.result
         IN  [banner |-> "",
              source_status |->
                  [k \in 1..Len(result.sources_succeeded) |->
                      <<"[OK]", result.sources_succeeded[k]>>]
                  \o [k \in 1..Len(result.sources_failed) |->
                      <<"[--]", result.sources_failed[k]>>],
              responded |-> <<Len(result.sources_succeeded), Len(result.sources_queried)>>,
              verdict |-> IF result.breached THEN "EXPOSURE STATUS: COMPROMISED"
                          ELSE "EXPOSURE STATUS: CLEAR",
              note |-> IF result.breached THEN ""
                       ELSE "No breach records found in queried databases."]

\* check_email_sync is over and the report is printed
DoEmailCheckReport(c) ==
    /\ calls[c].pc \in {"returned", "raised"}
    /\ report = NotRun
    /\ report' = do_email_check(calls[c])
    /\ UNCHANGED <<results, correlated, riskBreaches, riskScore, response, norm, pwVars, agentVars>>

NextCli ==
    \/ NextAgent
    \/ \E c \in DOMAIN calls : DoEmailCheckReport(c)

SpecCli == InitAgent /\ [][NextCli]_vars

(***************************************************************************)
(* Claims about the email report (SpecCli)                                 *)
(***************************************************************************)
\* C22: the report never shows an inconclusive result, not breached because
\* the queried sources failed, with the verdict of a clean one: "EXPOSURE
\* STATUS: CLEAR" is printed only when sources succeeded
C22_ClearOnlyWhenSourcesSucceeded ==
    (report # NotRun /\ report.verdict = "EXPOSURE STATUS: CLEAR") =>
        /\ calls[1].result.sources_succeeded # <<>>
        /\ 2 * Len(calls[1].result.sources_succeeded) >= Len(calls[1].result.sources_queried)

\* the report of a check whose sources all failed: "Sources responded: 0/n"
\* above the verdict and the note of a clean result
C22_ClearWithNoSource ==
    /\ report # NotRun
    /\ report.verdict = "EXPOSURE STATUS: CLEAR"
    /\ report.note = "No breach records found in queried databases."
    /\ report.responded[1] = 0
    /\ report.responded[2] > 0

\* what does tell the two apart is the source list printed above the verdict
C22_SourceLinesTellApart ==
    (report # NotRun /\ report.banner = "") =>
        /\ report.responded[1] = Len(SelectSeq(report.source_status,
                                               LAMBDA l : l[1] = "[OK]"))
        /\ report.responded[1] = Len(calls[1].result.sources_succeeded)

(***************************************************************************)
(* Specification SpecNorm: normalize_breach_name and _normalize_with_aliases*)
(* applied to a name, and then to what they returned.                      *)
(***************************************************************************)
\* the longest name drawn character by character
MaxNameLen == 3

\* upper and lower case, a digit, white space and punctuation
NameChars == {"A", "a", "1", " ", "-"}

\* every short name, the names the alias table knows in the spellings the
\* sources use, and None
Names ==
    UNION {[1..n -> NameChars] : n \in 0..MaxNameLen}
    \cup {None, T_ADOBE_sp, T_Adobe_Systems, T_adobesystems, T_LinkedIn,
          T_linkedin_com, T_linkedincom, T_dropboxcom, T_Zynga}

InitNorm ==
    /\ results = <<>>
    /\ correlated = NotRun
    /\ InitIdleRisk
    /\ InitIdlePwd
    /\ InitIdleAgent

NormUnchanged ==
    UNCHANGED <<results, correlated, riskBreaches, riskScore, response, report,
                pwVars, agentVars>>

\* normalize_breach_name(name) and engine._normalize_with_aliases(name)
Normalize(name) ==
    /\ norm = NotRun
    /\ norm' = [pc |-> "once", name |-> name,
                normalized |-> normalize_breach_name(name),
                key |-> _normalize_with_aliases(name)]
    /\ NormUnchanged

\* the two functions applied to their own results
NormalizeAgain ==
    /\ norm # NotRun
    /\ norm.pc = "once"
    /\ norm' = [pc |-> "twice", name |-> norm.name,
                normalized |-> normalize_breach_name(norm.normalized),
                key |-> _normalize_with_aliases(norm.key)]
    /\ NormUnchanged

NextNorm ==
    \/ \E name \in Names : Normalize(name)
    \/ NormalizeAgain

SpecNorm == InitNorm /\ [][NextNorm]_vars

(***************************************************************************)
(* Claims about the normalization of breach names (SpecNorm)               *)
(***************************************************************************)
\* C23: normalizing a normalized breach name changes nothing, and neither does
\* the alias-resolving key function applied to a key: every alias target is a
\* fixed point of the alias table
C23_NormalizationIdempotent ==
    /\ [][(norm # NotRun /\ norm.pc = "once") =>
              /\ norm'.normalized = norm.normalized
              /\ norm'.key = norm.key]_vars
    /\ [](\A a \in KnownAliases : _normalize_with_aliases(a[2]) = a[2])

\* "Adobe Systems" has been normalized twice: its name to "adobesystems", its
\* key through the alias table to "adobe"
C23_Witness ==
    /\ norm # NotRun
    /\ norm.pc = "twice"
    /\ norm.name = T_Adobe_Systems
    /\ norm.normalized = T_adobesystems
    /\ norm.key = T_adobe

(***************************************************************************)
(* Specification SpecSort: correlate on the answer of one source that      *)
(* reports breaches of equal, different and unknown years in any order.    *)
(***************************************************************************)
\* how many raw breaches the source reports at most
MaxSorted == 3

SortRawBreaches ==
    {RawBreach({"name", "date"}, T_Zynga, D_2013, <<>>),
     RawBreach({"name", "date"}, T_LinkedIn, D_2013, <<>>),
     RawBreach({"name", "date"}, T_linkedin_com, None, <<>>),
     RawBreach({"name", "date"}, T_ADOBE_sp, D_2025, <<>>),
     RawBreach({"name"}, T_Adobe_Systems, None, <<>>),
     RawBreach({"name"}, T_dropbox, None, <<>>)}

InitSort ==
    /\ \E n \in 1..MaxSorted : \E bl \in [1..n -> SortRawBreaches] :
           /\ \A i, j \in 1..n : bl[i] = bl[j] => i = j
           /\ results = <<SourceResult(SourceNames[1], TRUE, bl, None)>>
    /\ correlated = NotRun
    /\ InitIdleRisk
    /\ InitIdlePwd
    /\ InitIdleAgent

SpecSort == InitSort /\ [][NextCorr]_vars

(***************************************************************************)
(* Claims about the order of the breaches (SpecSort)                       *)
(***************************************************************************)
\* b1 may stand before b2 in a list ordered by (year or 0, name) descending
MayPrecede(b1, b2) ==
    LET y1 == IF b1.year = NoYear THEN 0 ELSE b1.year
        y2 == IF b2.year = NoYear THEN 0 ELSE b2.year
    IN  \/ y1 > y2
        \/ y1 = y2 /\ ~StrLess(b1.name, b2.name)

AllPermitsFree ==
    /\ limiter._concurrent_requests = 0
    /\ limiter._semaphore = config.max_concurrent_sources

\* C25: with rate limiting enabled every permit taken by a successful acquire
\* is given back exactly once: when check_email has returned, also after a
\* source call was cut off by the per-call timeout or raised,
\* _concurrent_requests is 0 and all global_max_concurrent permits are free
C25_PermitsGivenBack ==
    (\A c \in DOMAIN calls : calls[c].pc \in {"idle", "returned", "raised"})
        => AllPermitsFree

\* the permits are given back when no source call was cut off by the timeout,
\* whether fetch returned or raised
C25_GivenBackWithoutTimeout ==
    (/\ \A c \in DOMAIN calls : calls[c].pc \in {"idle", "returned", "raised"}
     /\ \A c \in DOMAIN calls : \A i \in DOMAIN calls[c].tasks :
            calls[c].tasks[i].done_kind # "exception")
        => AllPermitsFree

\* a check has returned with a permit still taken
C25_PermitLost ==
    /\ \E c \in DOMAIN calls : calls[c].pc = "returned"
    /\ limiter._concurrent_requests > 0
    /\ limiter._semaphore < config.max_concurrent_sources

(***************************************************************************)
(* Claims about admission during a back-off (SpecLimitedBatch)             *)
(***************************************************************************)
\* acquire returns True to task i of call c in this step
Admitted(c, i) ==
    /\ config.enable_rate_limiting
    /\ i \in DOMAIN calls[c].tasks
    /\ i \in DOMAIN calls'[c].tasks
    /\ calls[c].tasks[i].st # "fetch"
    /\ calls'[c].tasks[i].st = "fetch"

\* the time of the last rate-limit signal of the source, which its health keeps
\* as rate_limit_reset - 60 s; the back-off that signal set is twice the
\* back-off before it, so its deadline is 2 s after the signal or later
LastSignal(name) == health[name].rate_limit_reset - 60
SignalSeen(name) == name \in DOMAIN health /\ health[name].rate_limit_reset # NoTime

\* C26: once a source has signalled a rate limit, acquire admits no new request
\* to it before the back-off deadline set by that signal has passed, under
\* every interleaving of calls to the source, also when another call of the
\* source in flight completes successfully in the meantime
C26_NoAdmissionBeforeDeadline ==
    [][\A c \in DOMAIN calls : \A i \in DOMAIN calls[c].tasks :
           (Admitted(c, i) /\ SignalSeen(calls[c].tasks[i].source))
               => now >= LastSignal(calls[c].tasks[i].source) + 2]_vars

\* while the deadline stands in the state of the source, acquire admits nothing
C26_DeniedWhileDeadlineStands ==
    [][\A c \in DOMAIN calls : \A i \in DOMAIN calls[c].tasks :
           Admitted(c, i) =>
               LET name == calls[c].tasks[i].source
               IN  ~(/\ HasState(limiter, name)
                     /\ limiter._source_limits[name].backoff_until # NoTime
                     /\ 8 * now < limiter._source_limits[name].backoff_until)]_vars

\* a success of the source withdraws a deadline that has not passed
C26_DeadlineWithdrawn ==
    /\ SignalSeen(TheSource)
    /\ now < LastSignal(TheSource) + 2
    /\ HasState(limiter, TheSource)
    /\ limiter._source_limits[TheSource].backoff_until = NoTime

(***************************************************************************)
(* Claims about the health updates of fetch (SpecFetch)                    *)
(***************************************************************************)
\* C27: each fetch that returns performs exactly one health update, consistent
\* with its result: record_success iff the SourceResult returned is a success,
\* otherwise record_failure; so total_requests counts the fetches made and
\* successful_requests those that returned a successful result
C27_OneHealthUpdatePerFetch ==
    [][health' # health =>
           LET h == health[sources[1]]
               h1 == health'[sources[1]]
               r == response'.outcome.result
           IN  /\ h1.total_requests = h.total_requests + 1
               /\ h1.successful_requests =
                      h.successful_requests + (IF success(r) THEN 1 ELSE 0)
               /\ success(r) => h1.consecutive_failures = 0
               /\ ~success(r) => h1.consecutive_failures = h.consecutive_failures + 1]_vars

\* the same for every exchange but an HTTP 200 whose JSON is laid out otherwise
\* than the variant reads it
C27_ExceptUnreadableJson ==
    [][(health' # health /\ response'.http.shape # "other") =>
           LET h == health[sources[1]]
               h1 == health'[sources[1]]
               r == response'.outcome.result
           IN  /\ h1.total_requests = h.total_requests + 1
               /\ h1.successful_requests =
                      h.successful_requests + (IF success(r) THEN 1 ELSE 0)
               /\ success(r) => h1.consecutive_failures = 0
               /\ ~success(r) => h1.consecutive_failures = h.consecutive_failures + 1]_vars

\* one fetch has returned a failure and the health counts two requests, one of
\* them successful
C27_CountedTwice ==
    /\ response # NotRun
    /\ ~success(response.outcome.result)
    /\ health[sources[1]].total_requests = 2
    /\ health[sources[1]].successful_requests = 1
    /\ health[sources[1]].consecutive_failures = 1
    /\ response.http.shape = "other"

(***************************************************************************)
(* Claims about the request window of the rate limiter (SpecBackoff)       *)
(***************************************************************************)
\* C28: under any interleaving of acquire calls requests_made of a source never
\* exceeds max_requests_per_window (60) within one window: a request is counted
\* only while requests_made is below the maximum after the window-reset check,
\* and the counter restarts only when window_seconds (60) have elapsed since
\* window_start
C28_WindowNeverExceeded ==
    /\ [](HasState(limiter, TheSource) =>
              limiter._source_limits[TheSource].requests_made <= 60)
    /\ [][(HasState(limiter, TheSource)
           /\ limiter'._source_limits[TheSource] # limiter._source_limits[TheSource]) =>
              LET s == limiter._source_limits[TheSource]
                  s1 == limiter'._source_limits[TheSource]
              IN  \/ /\ s1.window_start = s.window_start
                     /\ s1.requests_made = s.requests_made
                  \/ /\ s1.window_start = s.window_start
                     /\ s1.requests_made = s.requests_made + 1
                     /\ s.requests_made < 60
                  \/ /\ now - s.window_start >= 60
                     /\ s1.window_start = now
                     /\ s1.requests_made = 1]_vars

\* the window is full before it has elapsed, and two requests are in flight
C28_Witness ==
    /\ HasState(limiter, TheSource)
    /\ limiter._source_limits[TheSource].requests_made = 60
    /\ now - limiter._source_limits[TheSource].window_start < 60
    /\ limiter._concurrent_requests = 2

(***************************************************************************)
(* Specification SpecRecover: a caller checks one address several times,   *)
(* one check after the other, on an agent with the default configuration   *)
(* (two retries, no rate limiting) and one source.                         *)
(***************************************************************************)
\* how many checks the caller makes
MaxChecks == 3

InitRecover ==
    /\ InitIdleCorr
    /\ InitIdlePwd
    /\ NewAgent(AgentConfig(6, 2, FALSE), <<TheSource>>, MaxChecks)
    /\ batch = BatchOff

\* the caller awaits the next check_email once the one before has returned
RecoverCheckEmail(c) ==
    /\ IF c = 1 THEN TRUE ELSE calls[c - 1].pc = "returned"
    /\ CheckEmail(c, TheEmail)

NextRecover ==
    \/ \E c \in DOMAIN calls : RecoverCheckEmail(c)
    \/ \E c \in DOMAIN calls : \E i \in DOMAIN calls[c].tasks : TaskBegin(c, i)
    \/ \E c \in DOMAIN calls : \E i \in DOMAIN calls[c].tasks :
           \E o \in FetchOutcomes(calls[c].tasks[i].source) : FetchDone(c, i, o)
    \/ \E c \in DOMAIN calls : \E i \in DOMAIN calls[c].tasks : RetryWake(c, i)
    \/ \E c \in DOMAIN calls : \E i \in DOMAIN calls[c].tasks : Timeout(c, i)
    \/ \E c \in DOMAIN calls : Gather(c)

SpecRecover == InitRecover /\ [][NextRecover]_vars

(***************************************************************************)
(* Claims about the recovery of a source (SpecRecover)                     *)
(***************************************************************************)
\* the source has recovered: no consecutive failures, HEALTHY or DEGRADED, and
\* is_available() answers True
Recovered(h, t) ==
    /\ h.consecutive_failures = 0
    /\ h.status \in {"healthy", "degraded"}
    /\ is_available(h, t).available

\* C29: UNAVAILABLE is not an absorbing state: a check_email made while the
\* source is UNAVAILABLE still asks it, and as soon as its API answers
\* successfully the source has no consecutive failures, is HEALTHY or DEGRADED
\* and is available again
C29_UnavailableRecovers ==
    [][\A c \in DOMAIN calls :
           /\ (FansOut(c) /\ health[TheSource].status = "unavailable")
                  => \E i \in DOMAIN calls'[c].tasks : calls'[c].tasks[i].source = TheSource
           /\ \A i \in DOMAIN calls[c].tasks :
              \A o \in FetchOutcomes(calls[c].tasks[i].source) :
                  (/\ FetchEnds(c, i, o)
                   /\ health' = [health EXCEPT ![TheSource] = HealthAfter(@, o, now)]
                   /\ o.record = "success"
                   /\ health[TheSource].status = "unavailable")
                      => Recovered(health'[TheSource], now')]_vars

\* two checks have failed with six failures in a row, which made the source
\* UNAVAILABLE, and the third check has got an answer from it
C29_Witness ==
    /\ calls[1].pc = "returned" /\ calls[1].result.sources_failed = <<TheSource>>
    /\ calls[2].pc = "returned" /\ calls[2].result.sources_failed = <<TheSource>>
    /\ calls[3].pc = "returned" /\ calls[3].result.sources_succeeded = <<TheSource>>
    /\ health[TheSource].total_requests = 7
    /\ health[TheSource].successful_requests = 1
    /\ Recovered(health[TheSource], now)

(***************************************************************************)
(* Claims about the variant lookups of PasswordChecker.check (SpecPwd)     *)
(***************************************************************************)
\* the result check holds after this step: the value it returns or raises once
\* it is over, the accumulated exposed and max_count before
CheckResultNext == IF pwApi'.pc = "done" THEN pwResult' ELSE pwApi'.acc

\* C30: PasswordChecker.check layers the lookups of the variants on the exact
\* lookup: exposed is true iff the password or a variant is found in its range
\* response, count is the largest count found, a variant lookup that fails is
\* skipped without raising or changing the result, and a failure of the exact
\* lookup reaches the caller
C30_VariantsLayeredOnExact ==
    [][(/\ pwApi # NotRun
        /\ pwApi.api = "PasswordChecker.check"
        /\ pwApi.pc = "waiting"
        /\ pwApi' # pwApi) =>
           \E resp \in Responses(Suffix(pwApi.lookup)) :
               LET res == check_password_hibp(Suffix(pwApi.lookup), resp)
                   found == res.kind = "return" /\ res.exposed
               IN  IF pwApi.stage = "exact"
                   THEN IF res.kind = "raise"
                        THEN /\ pwApi'.pc = "done"
                             /\ pwResult' = res
                             /\ pwRequests' = pwRequests
                        ELSE /\ CheckResultNext.kind = "return"
                             /\ CheckResultNext.exposed = res.exposed
                             /\ CheckResultNext.count = res.count
                   ELSE /\ CheckResultNext.kind = "return"
                        /\ CheckResultNext.exposed = (pwApi.acc.exposed \/ found)
                        /\ CheckResultNext.count =
                               IF found /\ res.count > pwApi.acc.count
                               THEN res.count ELSE pwApi.acc.count]_vars

\* check("Password") has returned exposed with the count 12 after the exact
\* lookup and three variant lookups
C30_Witness ==
    /\ pwApi # NotRun
    /\ pwApi.pc = "done"
    /\ pwApi.api = "PasswordChecker.check"
    /\ pw = P_Password
    /\ Len(pwRequests) = 4
    /\ pwResult.kind = "return"
    /\ pwResult.exposed
    /\ pwResult.count = 12

====
